---- MODULE Spec2Model ----
(***************************************************************************)
(* Model of the tenant-resolution and cached knowledge-base lookup         *)
(* pipeline of the restaurant voice-assistant backend:                     *)
(*   backend/src/api/vapi.py            the webhook handlers               *)
(*   backend/src/services/cache.py      the Tenant Cache (a TTLCache)      *)
(*   backend/src/services/vector_search.py   search_knowledge_base         *)
(*   backend/src/services/vapi_response.py   the response shaper           *)
(*   backend/src/services/phone_mapping.py   the phone mapping lookup      *)
(*   backend/src/models/vapi.py         the webhook body model             *)
(*                                                                         *)
(* Python strings on which the code works character-wise (tenant ids,      *)
(* categories, query texts, phone numbers, cache keys) are sequences of    *)
(* one-character strings.  Strings the code only compares or copies (the   *)
(* shared secret, tool names, tool call ids, messages) are one-element     *)
(* sequences holding the whole text.  Python's None is the one-element     *)
(* sequence None.                                                          *)
(***************************************************************************)
EXTENDS Integers, Sequences, FiniteSets, TLC

VARIABLES now, cache, store, phone_map, req, last, hist

vars == <<now, cache, store, phone_map, req, last, hist>>

-----------------------------------------------------------------------------
(* Python values *)

None == <<"None">>
Empty == <<>>

\* the truth value Python gives a str-or-None value in `if x`, `not x`, `x or y`
Truthy(s) == s # None /\ s # Empty

\* Python's `a or b`
Or(a, b) == IF Truthy(a) THEN a ELSE b

\* s.startswith(p)
StartsWith(s, p) ==
    /\ Len(p) <= Len(s)
    /\ \A i \in 1..Len(p) : s[i] = p[i]

\* `p in s` for two strings
Contains(s, p) ==
    \E k \in 0..(Len(s) - Len(p)) : \A i \in 1..Len(p) : s[k + i] = p[i]

\* s.replace(ch, "") for a one-character ch
RECURSIVE Remove(_, _)
Remove(s, ch) ==
    IF s = Empty THEN Empty
    ELSE IF Head(s) = ch THEN Remove(Tail(s), ch)
    ELSE <<Head(s)>> \o Remove(Tail(s), ch)

RECURSIVE LStrip(_)
LStrip(s) == IF s # Empty /\ Head(s) = " " THEN LStrip(Tail(s)) ELSE s

RECURSIVE RStrip(_)
RStrip(s) ==
    IF s # Empty /\ s[Len(s)] = " " THEN RStrip(SubSeq(s, 1, Len(s) - 1)) ELSE s

\* s.strip()
Strip(s) == RStrip(LStrip(s))

-----------------------------------------------------------------------------
(* The strings the model draws its inputs from *)

colon == <<":">>
menu == <<"m", "e", "n", "u">>
modifiers == <<"m", "o", "d", "i", "f", "i", "e", "r", "s">>
hours == <<"h", "o", "u", "r", "s">>
zones == <<"z", "o", "n", "e", "s">>
all == <<"a", "l", "l">>

\* tenant ids: two plain ones, and one that holds the key separator
TenantT == <<"T">>
TenantU == <<"U">>
TenantTmenu == TenantT \o colon \o menu
\* the tenants the query parameter and the phone mapping name
TenantV == <<"V">>
TenantW == <<"W">>
\* values that need strip(): a padded id and a blank one
PaddedU == <<" ", "U", " ">>
Blank == <<" ">>
\* a metadata.restaurant_id that is a truthy JSON value but no string
NotAString == <<"number">>

\* query texts
QueryQ == <<"q">>
QueryAllQ == all \o colon \o QueryQ
QueryXmenuY == <<"x">> \o colon \o menu \o colon \o <<"y">>

\* phone numbers, formatted and normalized
PhoneFormatted == <<"+", "1", " ", "(", "9", ")", "-", "3">>
PhoneClean == <<"+", "1", "9", "3">>
PhoneUnknown == <<"+", "4", "4">>

get_menu_info == <<"get_menu_info">>
get_modifiers_info == <<"get_modifiers_info">>
get_hours_info == <<"get_hours_info">>
get_zones_info == <<"get_zones_info">>
other_tool == <<"transfer_call">>

ToolCallId1 == <<"call_1">>
ToolCallId2 == <<"call_2">>

\* settings.vapi_secret_key, and a header value that differs from it
vapi_secret_key == <<"configured-secret">>
WrongSecret == <<"wrong-secret">>

\* the texts of the exceptions the collaborators raise
EmbeddingErrorText == <<"openai.AuthenticationError: Incorrect API key provided">>
StoreErrorText == <<"postgrest.APIError: function search_documents failed">>
AttributeErrorText == <<"'int' object has no attribute 'strip'">>

-----------------------------------------------------------------------------
(* Bounds and program constants *)

\* seconds one Tick of the clock advances
TickStep == 30
\* the clock stops here
MaxTime == 90
\* TTLCache(maxsize=1000, ...), scaled down so that the cache fills
MaxSize == 2
\* the versions a tenant's documents go through in the Knowledge Store
MaxVersion == 2

\* Settings.cache_ttl_seconds
cache_ttl_seconds == 60
\* asyncio.wait_for(..., timeout=15.0)
timeout == 15
\* search_knowledge_base(..., limit=5)
limit == 5

-----------------------------------------------------------------------------
(* services/cache.py: the Tenant Cache.                                    *)
(* `cache` is the TTLCache as the sequence of its live entries, least      *)
(* recently used first; an entry is [key, value, expires], and with it the *)
(* restaurant_id, category and query set_cached_result stored it for and   *)
(* the time it was written.  An                                            *)
(* entry whose expiry time has come is invisible to every operation of a   *)
(* TTLCache, so the clock drops it as it passes (expire).                  *)

get_cache_key(restaurant_id, query, category) ==
    LET category_str == Or(category, all)
    IN  restaurant_id \o colon \o category_str \o colon \o query

\* TTLCache.expire(time): drop the entries with expires <= time
expire(c, time) == SelectSeq(c, LAMBDA e : time < e.expires)

\* the position of key in c, 0 when absent
RECURSIVE IndexOf(_, _)
IndexOf(c, key) ==
    IF c = <<>> THEN 0
    ELSE IF c[Len(c)].key = key THEN Len(c)
    ELSE IndexOf(SubSeq(c, 1, Len(c) - 1), key)

HasKey(c, key) == IndexOf(c, key) # 0

Without(c, key) == SelectSeq(c, LAMBDA e : e.key # key)

\* _cache.get(key): [found, value]; found = FALSE is Python's None
CacheLookup(c, key, time) ==
    LET k == IndexOf(c, key)
    IN  IF k # 0 /\ time < c[k].expires
        THEN [found |-> TRUE, value |-> c[k].value, written |-> c[k].written]
        ELSE [found |-> FALSE, value |-> <<>>, written |-> 0]

get_cached_result(c, restaurant_id, query, category, time) ==
    CacheLookup(c, get_cache_key(restaurant_id, query, category), time)

\* a read that gives the entry a new lifetime
Touch_Extends(c, key) ==
    LET k == IndexOf(c, key)
    IN  IF k = 0 THEN c
        ELSE Append(Without(c, key),
                    [c[k] EXCEPT !.expires = @ + cache_ttl_seconds])

\* the cache after _cache.get(key): a read makes the entry the most recently used
Touch(c, key) ==
    LET k == IndexOf(c, key)
    IN  IF k = 0 THEN c ELSE Append(Without(c, key), c[k])

\* a write that never gives up an entry
SetItem_Grows(c, item, time) ==
    LET live == expire(c, time)
        entry == [item EXCEPT !.expires = time + cache_ttl_seconds,
                              !.written = time]
    IN  Append(Without(live, entry.key), entry)

\* _cache[key] = results: expired entries go first, a full cache gives up its
\* least recently used entry, and the entry expires ttl after this write
SetItem(c, item, time) ==
    LET live == expire(c, time)
        entry == [item EXCEPT !.expires = time + cache_ttl_seconds,
                              !.written = time]
    IN  IF HasKey(live, entry.key) THEN Append(Without(live, entry.key), entry)
        ELSE IF Len(live) >= MaxSize THEN Append(Tail(live), entry)
        ELSE Append(live, entry)

\* a write of an empty list whatever the store returned
set_cached_result_Empty(c, restaurant_id, query, results, category, time) ==
    SetItem(c, [key |-> get_cache_key(restaurant_id, query, category),
                value |-> <<>>, expires |-> 0, written |-> 0,
                restaurant_id |-> restaurant_id, category |-> category,
                query |-> query], time)

set_cached_result(c, restaurant_id, query, results, category, time) ==
    SetItem(c, [key |-> get_cache_key(restaurant_id, query, category),
                value |-> results, expires |-> 0, written |-> 0,
                restaurant_id |-> restaurant_id, category |-> category,
                query |-> query], time)

\* the test clear_cache applies to each key
ClearMatches(key, restaurant_id, category) ==
    /\ StartsWith(key, restaurant_id \o colon)
    /\ \/ category = None
       \/ Contains(key, colon \o category \o colon)

clear_cache(c, restaurant_id, category, time) ==
    SelectSeq(expire(c, time),
              LAMBDA e : ~ClearMatches(e.key, restaurant_id, category))

-----------------------------------------------------------------------------
(* services/auth.py, and the same check at the head of vapi_knowledge_base; *)
(* TRUE: the secret is accepted, FALSE: HTTPException(401)                  *)

\* a check of the header's presence only
verify_vapi_secret_PresenceOnly(x_vapi_secret) ==
    Truthy(x_vapi_secret)

verify_vapi_secret(x_vapi_secret) ==
    ~(~Truthy(x_vapi_secret) \/ x_vapi_secret # vapi_secret_key)

KnowledgeBaseSecretOk(x_vapi_secret) ==
    ~(~Truthy(x_vapi_secret) \/ x_vapi_secret # vapi_secret_key)

-----------------------------------------------------------------------------
(* models/vapi.py: the webhook body.                                       *)
(* A body is a record: ok (VapiRequest.parse_raw accepts it), query,       *)
(* functionCall ([present, parameters, query]), toolCalls (a sequence of   *)
(* [id, function, name, arguments]), messages, metadata_restaurant_id, and *)
(* the raw phone fields of message and message.call.                       *)
(* arguments is [t, query]: t is "none", "dict", "json" (a string holding  *)
(* a JSON object), "badjson" (a string that is no JSON object) or "other". *)
(* A phone field is [t, s, number, phoneNumber]: t is "none", "str",       *)
(* "dict" or "other".                                                      *)

NoArgs == [t |-> "none", query |-> None]
DictArgs(q) == [t |-> "dict", query |-> q]
JsonArgs(q) == [t |-> "json", query |-> q]

NoPhone == [t |-> "none", s |-> None, number |-> None, phoneNumber |-> None]
StrPhone(p) == [t |-> "str", s |-> p, number |-> None, phoneNumber |-> None]
DictPhone(n, p) == [t |-> "dict", s |-> None, number |-> n, phoneNumber |-> p]
\* a phone field that is neither a string nor an object
OtherPhone == [t |-> "other", s |-> None, number |-> None, phoneNumber |-> None]

ToolCall(id, name, arguments) ==
    [id |-> id, function |-> TRUE, name |-> name, arguments |-> arguments]

\* truthiness of tool_call.function.arguments
ArgsTruthy(a) ==
    \/ a.t \in {"dict", "other"}
    \/ a.t \in {"json", "badjson"}

RECURSIVE QueryOfToolCalls(_)
\* the loop over message.toolCalls: [returned, value]
QueryOfToolCalls(tcs) ==
    IF tcs = <<>> THEN [returned |-> FALSE, value |-> None]
    ELSE LET tc == Head(tcs)
         IN  IF tc.function /\ ArgsTruthy(tc.arguments)
             THEN IF tc.arguments.t \in {"dict", "json"}
                  THEN [returned |-> TRUE, value |-> tc.arguments.query]
                  ELSE QueryOfToolCalls(Tail(tcs))
             ELSE QueryOfToolCalls(Tail(tcs))

RECURSIVE LastContent(_)
\* for msg in reversed(self.messages): the content of the last message with one
LastContent(msgs) ==
    IF msgs = <<>> THEN None
    ELSE IF msgs[Len(msgs)].has_content THEN msgs[Len(msgs)].content
    ELSE LastContent(SubSeq(msgs, 1, Len(msgs) - 1))

extract_query(b) ==
    IF Truthy(b.query) THEN b.query
    ELSE IF b.message /\ b.functionCall.present /\ b.functionCall.parameters
    THEN b.functionCall.query
    ELSE LET t == IF b.message /\ b.toolCalls # <<>>
                  THEN QueryOfToolCalls(b.toolCalls)
                  ELSE [returned |-> FALSE, value |-> None]
         IN  IF t.returned THEN t.value ELSE LastContent(b.messages)

RECURSIVE extract_tool_call_id_of(_)
extract_tool_call_id_of(tcs) ==
    IF tcs = <<>> THEN None
    ELSE IF Truthy(Head(tcs).id) THEN Head(tcs).id
    ELSE extract_tool_call_id_of(Tail(tcs))

extract_tool_call_id(b) ==
    IF b.message THEN extract_tool_call_id_of(b.toolCalls) ELSE None

RECURSIVE extract_tool_name_of(_)
extract_tool_name_of(tcs) ==
    IF tcs = <<>> THEN None
    ELSE IF Head(tcs).function /\ Truthy(Head(tcs).name) THEN Head(tcs).name
    ELSE extract_tool_name_of(Tail(tcs))

extract_tool_name(b) ==
    IF b.message THEN extract_tool_name_of(b.toolCalls) ELSE None

\* VapiRequest.extract_restaurant_id: metadata.get("restaurant_id")
extract_restaurant_id(b) == b.metadata_restaurant_id

-----------------------------------------------------------------------------
(* services/phone_mapping.py and the phone fallback of the handlers *)

PhoneTruthy(v) == (v.t = "str" /\ v.s # Empty) \/ v.t \in {"dict", "other"}

\* obj.get("phoneNumber") or obj.get("phone_number")
PhoneOr(a, b) == IF PhoneTruthy(a) THEN a ELSE b

\* the phone_number one level yields: the string itself, or
\* phone_value.get("number") or phone_value.get("phoneNumber") of an object
PhoneOfValue(v) ==
    IF v.t = "str" THEN v.s
    ELSE IF v.t = "dict" THEN Or(v.number, v.phoneNumber)
    ELSE None

\* an extraction that never looks into the nested call object
ExtractPhone_MessageOnly(b) ==
    IF ~b.message THEN None
    ELSE PhoneOfValue(PhoneOr(b.phoneNumber, b.phone_number))

\* the phone number the handlers extract from body["message"]: the message
\* level first, the nested call object when that yields nothing
ExtractPhone(b) ==
    IF ~b.message THEN None
    ELSE LET top == PhoneOfValue(PhoneOr(b.phoneNumber, b.phone_number))
             nested == PhoneOr(b.call_phoneNumber, b.call_phone_number)
         IN  IF ~Truthy(top) /\ b.call /\ nested.t \in {"str", "dict"}
             THEN PhoneOfValue(nested)
             ELSE top

\* a normal form that keeps the hyphens
NormalizePhone_KeepsHyphens(phone_number) ==
    Remove(Remove(Remove(phone_number, " "), "("), ")")

\* phone_number.replace(" ", "").replace("(", "").replace(")", "").replace("-", "")
NormalizePhone(phone_number) ==
    Remove(Remove(Remove(Remove(phone_number, " "), "("), ")"), "-")

\* the rows of restaurant_phone_mappings with this phone_number
MappingRows(pm, phone_clean) == {m \in pm : m.phone_number = phone_clean}

\* a lookup that answers from the rows also when the mapping store raised
get_restaurant_id_from_phone_Stale(pm, phone_number, store_ok) ==
    IF ~Truthy(phone_number) THEN None
    ELSE LET rows == MappingRows(pm, NormalizePhone(phone_number))
         IN  IF rows # {} THEN (CHOOSE m \in rows : TRUE).restaurant_id
             ELSE None

\* get_restaurant_id_from_phone; store_ok = FALSE: the mapping store raises
get_restaurant_id_from_phone(pm, phone_number, store_ok) ==
    IF ~Truthy(phone_number) THEN None
    ELSE LET phone_clean == NormalizePhone(phone_number)
             rows == MappingRows(pm, phone_clean)
         IN  IF store_ok /\ rows # {}
             THEN (CHOOSE m \in rows : TRUE).restaurant_id
             ELSE None

\* the key get_restaurant_id_from_phone asks the mapping store for, None when it
\* returns before the query
PhoneQueryKey(phone_number) ==
    IF ~Truthy(phone_number) THEN None ELSE NormalizePhone(phone_number)

\* create_phone_mapping: [ok, pm]; the upsert replaces the row of the same
\* phone_number; store_ok = FALSE: the mapping store raises
create_phone_mapping(pm, phone_number, restaurant_id, store_ok) ==
    IF ~Truthy(phone_number) \/ ~Truthy(restaurant_id)
    THEN [ok |-> FALSE, pm |-> pm]
    ELSE LET phone_clean == NormalizePhone(phone_number)
         IN  IF store_ok
             THEN [ok |-> TRUE,
                   pm |-> (pm \ MappingRows(pm, phone_clean))
                          \cup {[phone_number |-> phone_clean,
                                  restaurant_id |-> restaurant_id,
                                  raw |-> phone_number]}]
             ELSE [ok |-> FALSE, pm |-> pm]

\* an answer that does not look at what the Phone Mapping returned
vapi_assistant_request_Unguarded(b, pm, pm_ok) ==
    IF ~b.ok THEN <<>>
    ELSE LET phone_number == ExtractPhone(b)
         IN  IF Truthy(phone_number)
             THEN <<[restaurant_id |->
                        get_restaurant_id_from_phone(pm, phone_number, pm_ok),
                     phoneNumber |-> phone_number]>>
             ELSE <<>>

\* an answer from the message-level phone field alone
vapi_assistant_request_MessageOnly(b, pm, pm_ok) ==
    IF ~b.ok THEN <<>>
    ELSE LET phone_number == ExtractPhone_MessageOnly(b)
             restaurant_id == get_restaurant_id_from_phone(pm, phone_number, pm_ok)
         IN  IF Truthy(phone_number) /\ Truthy(restaurant_id)
             THEN <<[restaurant_id |-> restaurant_id,
                     phoneNumber |-> phone_number]>>
             ELSE <<>>

\* vapi_assistant_request: the JSON object of the response, <<>> for {}; an
\* unparseable body and every other exception end in {}
vapi_assistant_request(b, pm, pm_ok) ==
    IF ~b.ok THEN <<>>
    ELSE LET phone_number == ExtractPhone(b)
             restaurant_id == get_restaurant_id_from_phone(pm, phone_number, pm_ok)
         IN  IF Truthy(phone_number) /\ Truthy(restaurant_id)
             THEN <<[restaurant_id |-> restaurant_id,
                     phoneNumber |-> phone_number]>>
             ELSE <<>>

-----------------------------------------------------------------------------
(* services/phone_service.py and services/twilio_service.py: provisioning. *)
(* A Vapi phone number is [number, mine]: mine says that it has no         *)
(* assistant or the shared one.  What Twilio and Vapi answer during one    *)
(* create_and_assign_twilio_phone is a record tw: credential (a credential *)
(* id was obtained), existing_numbers and available_numbers (phone         *)
(* numbers), purchase ("ok", "trial_limit" or "purchase_failed"), vapi_ok  *)
(* (the Vapi calls succeed) and store_ok (the mapping store answers).      *)

RECURSIVE FirstUnmapped(_, _, _, _)
\* one loop of lines 56-69 or 72-80: the first number, of those with no or the
\* shared assistant when only_mine, that get_restaurant_id_from_phone has no
\* tenant for; None when there is none
FirstUnmapped(pm, phone_numbers, only_mine, store_ok) ==
    IF phone_numbers = <<>> THEN None
    ELSE LET pn == Head(phone_numbers)
         IN  IF /\ Truthy(pn.number)
                /\ only_mine => pn.mine
                /\ ~Truthy(get_restaurant_id_from_phone(pm, pn.number, store_ok))
             THEN pn.number
             ELSE FirstUnmapped(pm, Tail(phone_numbers), only_mine, store_ok)

\* lines 51-80: available_phone
AvailablePhone(pm, phone_numbers, store_ok) ==
    Or(FirstUnmapped(pm, phone_numbers, TRUE, store_ok),
       FirstUnmapped(pm, phone_numbers, FALSE, store_ok))

\* existing_numbers[0].get("phone_number"), None for the `return None` branches
FirstExisting(existing_numbers) ==
    IF existing_numbers # <<>> /\ Truthy(Head(existing_numbers))
    THEN Head(existing_numbers)
    ELSE None

\* lines 162-209: phone_number_e164, None where the function returns None
TwilioNumber(tw) ==
    IF tw.available_numbers = <<>> THEN FirstExisting(tw.existing_numbers)
    ELSE LET phone_number_e164 == Head(tw.available_numbers)
             already_purchased ==
                 \E k \in 1..Len(tw.existing_numbers) :
                     tw.existing_numbers[k] = phone_number_e164
         IN  IF ~Truthy(phone_number_e164) THEN None
             ELSE IF already_purchased \/ tw.purchase = "ok" THEN phone_number_e164
             ELSE IF tw.purchase = "trial_limit"
             THEN FirstExisting(tw.existing_numbers)
             ELSE None

\* create_and_assign_twilio_phone: [phone, pm], phone the number returned
create_and_assign_twilio_phone(pm, restaurant_id, tw) ==
    LET phone_number_e164 == TwilioNumber(tw)
        made == create_phone_mapping(pm, phone_number_e164, restaurant_id,
                                     tw.store_ok)
    IN  IF ~tw.credential \/ ~Truthy(phone_number_e164) \/ ~tw.vapi_ok
        THEN [phone |-> None, pm |-> pm]
        ELSE IF made.ok THEN [phone |-> phone_number_e164, pm |-> made.pm]
        ELSE [phone |-> None, pm |-> pm]

-----------------------------------------------------------------------------
(* api/vapi.py: tenant resolution and the tool-to-category map *)

\* _extract_restaurant_id(None, vapi_request): [raised, value]; .strip() on a
\* truthy value that is no string raises AttributeError
_extract_restaurant_id(x_restaurant_id, b) ==
    LET restaurant_id == Or(x_restaurant_id, extract_restaurant_id(b))
    IN  IF restaurant_id = NotAString
        THEN [raised |-> TRUE, value |-> None]
        ELSE [raised |-> FALSE,
              value |-> IF Truthy(restaurant_id) THEN Strip(restaurant_id)
                        ELSE None]

\* a chain that asks the metadata before header and query parameter
ExplicitRestaurantId_MetadataFirst(i) ==
    LET m == _extract_restaurant_id(None, i.body)
    IN  IF m.raised \/ Truthy(m.value) THEN m
        ELSE [raised |-> FALSE,
              value |-> Or(i.x_restaurant_id, i.query_restaurant_id)]

\* the restaurant_id the handler has before the phone fallback (lines 223-225)
ExplicitRestaurantId(i) ==
    LET first == Or(i.x_restaurant_id, i.query_restaurant_id)
    IN  IF Truthy(first) THEN [raised |-> FALSE, value |-> first]
        ELSE _extract_restaurant_id(None, i.body)

\* lines 223-263: [raised, restaurant_id, phone_lookup, store_failed];
\* phone_lookup is the key the Phone Mapping Store was queried with, None when
\* it was not consulted; store_failed: it was consulted and raised
ResolveTenant(i, pm, pm_ok) ==
    LET explicit == ExplicitRestaurantId(i)
        phone_number == ExtractPhone(i.body)
        consult == ~explicit.raised /\ ~Truthy(explicit.value)
                   /\ Truthy(phone_number)
    IN  [raised |-> explicit.raised,
         restaurant_id |->
            IF consult
            THEN get_restaurant_id_from_phone(pm, phone_number, pm_ok)
            ELSE explicit.value,
         phone_lookup |->
            IF consult THEN NormalizePhone(phone_number) ELSE None,
         store_failed |-> consult /\ ~pm_ok]

TOOL_CATEGORY_MAP ==
    {<<get_menu_info, menu>>, <<get_modifiers_info, modifiers>>,
     <<get_hours_info, hours>>, <<get_zones_info, zones>>}

\* a map that files every unknown tool under menu
_map_tool_to_category_MenuByDefault(tool_name) ==
    IF ~Truthy(tool_name) THEN None
    ELSE IF \E p \in TOOL_CATEGORY_MAP : p[1] = tool_name
    THEN (CHOOSE p \in TOOL_CATEGORY_MAP : p[1] = tool_name)[2]
    ELSE menu

_map_tool_to_category(tool_name) ==
    IF ~Truthy(tool_name) THEN None
    ELSE IF \E p \in TOOL_CATEGORY_MAP : p[1] = tool_name
    THEN (CHOOSE p \in TOOL_CATEGORY_MAP : p[1] = tool_name)[2]
    ELSE None

-----------------------------------------------------------------------------
(* services/vapi_response.py: the response shaper *)

MenuMessage == <<"I don't have information about that menu item.">>
ModifiersMessage == <<"I don't have information about those options.">>
HoursMessage == <<"I don't have operating hours information available right now.">>
ZonesMessage == <<"I don't have delivery zone information available right now.">>
GenericMessage == <<"I don't have information about that.">>
DelayMessage ==
    <<"I'm experiencing a delay retrieving that information. Please try again in a moment.">>

\* a shaper in which the category default wins over the custom message
build_no_result_CategoryFirst(tool_call_id, category, message) ==
    LET default_message ==
            IF category = menu THEN MenuMessage
            ELSE IF category = modifiers THEN ModifiersMessage
            ELSE IF category = hours THEN HoursMessage
            ELSE IF category = zones THEN ZonesMessage
            ELSE IF Truthy(message) THEN message
            ELSE GenericMessage
    IN  <<[toolCallId |-> tool_call_id, result |-> default_message]>>

\* build_no_result(tool_call_id, category=None, message=None)
build_no_result(tool_call_id, category, message) ==
    LET default_message ==
            IF Truthy(message) THEN message
            ELSE IF category = menu THEN MenuMessage
            ELSE IF category = modifiers THEN ModifiersMessage
            ELSE IF category = hours THEN HoursMessage
            ELSE IF category = zones THEN ZonesMessage
            ELSE GenericMessage
    IN  <<[toolCallId |-> tool_call_id, result |-> default_message]>>

\* the values of a metadata dict besides strings: the number 0 and False;
\* with None and "" they are the falsy ones
Zero == <<"0", "int">>
PyFalse == <<"False", "bool">>
PyTrue == <<"True", "bool">>

MetaTruthy(v) == v \notin {None, Empty, Zero, PyFalse}

\* x or y, of metadata values
MetaOr(a, b) == IF MetaTruthy(a) THEN a ELSE b

\* a dict without keys, and doc.get("metadata") or {} of a document without
\* metadata
NoMetadata == [f \in {} |-> None]

\* metadata.get(field)
Get(metadata, field) ==
    IF field \in DOMAIN metadata THEN metadata[field] ELSE None

RECURSIVE BeforeSeparator(_)
\* content.split(" - ")[0]
BeforeSeparator(content) ==
    IF content = <<>> THEN <<>>
    ELSE IF StartsWith(content, <<" ", "-", " ">>) THEN <<>>
    ELSE <<Head(content)>> \o BeforeSeparator(Tail(content))

extract_name_from_document(doc) ==
    LET name == MetaOr(Get(doc.metadata, "name"), Get(doc.metadata, "title"))
    IN  IF ~MetaTruthy(name) THEN Strip(BeforeSeparator(Or(doc.content, Empty)))
        ELSE name

\* an item that takes every value from the metadata field of its own name
ItemOf_SameNames(doc, category) ==
    LET metadata == doc.metadata
    IN  IF category = menu
        THEN [type |-> <<"menu_item">>, name |-> Get(metadata, "name"),
              price |-> Get(metadata, "price"),
              description |-> Get(metadata, "description"),
              score |-> doc.score]
        ELSE IF category = modifiers
        THEN [type |-> <<"modifier">>, name |-> Get(metadata, "name"),
              price_delta |-> Get(metadata, "price_delta"),
              required |-> Get(metadata, "required"),
              score |-> doc.score]
        ELSE IF category = hours
        THEN [type |-> <<"hours">>,
              day_of_week |-> Get(metadata, "day_of_week"),
              open_time |-> Get(metadata, "open_time"),
              close_time |-> Get(metadata, "close_time"),
              is_closed |-> Get(metadata, "is_closed"),
              score |-> doc.score]
        ELSE IF category = zones
        THEN [type |-> <<"zone">>,
              zone_name |-> Get(metadata, "zone_name"),
              delivery_fee |-> Get(metadata, "delivery_fee"),
              score |-> doc.score]
        ELSE [type |-> MetaOr(MetaOr(Get(metadata, "category"),
                                     Get(metadata, "type")), <<"unknown">>),
              name |-> Get(metadata, "name"),
              score |-> doc.score]

\* the item_obj build_structured_items makes of one document (lines 85-126)
ItemOf(doc, category) ==
    LET metadata == doc.metadata
        name == extract_name_from_document(doc)
        score == doc.score
    IN  IF category = menu
        THEN [type |-> <<"menu_item">>, name |-> name,
              price |-> Get(metadata, "price"),
              description |-> Get(metadata, "description"),
              score |-> score]
        ELSE IF category = modifiers
        THEN [type |-> <<"modifier">>, name |-> name,
              price_delta |-> MetaOr(Get(metadata, "price"),
                                     Get(metadata, "price_delta")),
              required |-> Get(metadata, "required"),
              score |-> score]
        ELSE IF category = hours
        THEN [type |-> <<"hours">>,
              day_of_week |-> Get(metadata, "day_of_week"),
              open_time |-> Get(metadata, "open_time"),
              close_time |-> Get(metadata, "close_time"),
              is_closed |-> Get(metadata, "is_closed"),
              score |-> score]
        ELSE IF category = zones
        THEN [type |-> <<"zone">>,
              zone_name |-> MetaOr(Get(metadata, "name"),
                                   Get(metadata, "zone_name")),
              delivery_fee |-> MetaOr(Get(metadata, "fee"),
                                      Get(metadata, "delivery_fee")),
              score |-> score]
        ELSE [type |-> MetaOr(MetaOr(Get(metadata, "category"),
                                     Get(metadata, "type")), <<"unknown">>),
              name |-> name,
              score |-> score]

\* results[:n]
Take(s, n) == SubSeq(s, 1, IF Len(s) < n THEN Len(s) ELSE n)

\* items of all results, not of the top three
build_structured_items_All(results, category) ==
    [k \in 1..Len(results) |-> ItemOf(results[k], category)]

build_structured_items(results, category) ==
    LET top == Take(results, 3)
    IN  [k \in 1..Len(top) |-> ItemOf(top[k], category)]

\* an envelope that does not carry the tool call id
build_tool_result_with_items_NoId(tool_call_id, text, items) ==
    <<[toolCallId |-> None, result |-> text, metadata |-> [items |-> items]]>>

build_tool_result_with_items(tool_call_id, text, items) ==
    <<[toolCallId |-> tool_call_id, result |-> text,
       metadata |-> [items |-> items]]>>

\* the call of line 284: the delay text is passed as the second positional
\* argument, which is `category`
TimeoutResponse(tool_call_id) == build_no_result(tool_call_id, DelayMessage, None)

RECURSIVE Join(_, _)
\* sep.join(parts)
Join(sep, parts) ==
    IF parts = <<>> THEN Empty
    ELSE IF Len(parts) = 1 THEN parts[1]
    ELSE parts[1] \o sep \o Join(sep, Tail(parts))

Contents(results) == [k \in 1..Len(results) |-> results[k].content]

\* lines 289-295: the results of a finished search as the tool response
SearchResponse(tool_call_id, results, category) ==
    IF results = <<>> THEN build_no_result(tool_call_id, category, None)
    ELSE build_tool_result_with_items(
             tool_call_id, Join(<<"\n", "\n">>, Contents(Take(results, 3))),
             build_structured_items(results, category))

-----------------------------------------------------------------------------
(* The Knowledge Store: store[t] is the version of tenant t's documents, 0   *)
(* when it has none.  A document is [content, owner, similarity]; owner is  *)
(* the tenant the store holds it for.                                       *)

Digit(n) == IF n = 1 THEN "1" ELSE IF n = 2 THEN "2" ELSE IF n = 3 THEN "3" ELSE "9"

\* the one document of an ordinary tenant: a menu item
Document(t, v) ==
    [content |-> t \o <<"#", Digit(v)>>, owner |-> t, category |-> menu,
     metadata |-> NoMetadata, score |-> <<"0.9">>]

\* a tenant with documents of every category
TenantM == <<"M">>

Doc(category, content, metadata, score) ==
    [content |-> content, owner |-> TenantM, category |-> category,
     metadata |-> metadata, score |-> score]

\* TenantM's documents in the order the store ranks them for every query
Catalogue ==
    <<Doc(menu, <<"P", " ", "-", " ", "x">>,
          ("name" :> <<"Pizza">>) @@ ("price" :> <<"9.5">>)
          @@ ("description" :> <<"wood-fired">>) @@ ("category" :> <<"mains">>),
          <<"0.8">>),
      Doc(menu, <<"Q", " ", "-", " ", "y">>,
          ("title" :> <<"Quiche">>) @@ ("price" :> Zero) @@ ("type" :> <<"special">>),
          <<"0.7">>),
      Doc(menu, <<" ", "R", " ", " ", "-", " ", "z">>, NoMetadata, <<"0.6">>),
      Doc(menu, <<"S">>, ("name" :> Empty), <<"0.5">>),
      Doc(modifiers, <<"c">>,
          ("name" :> <<"Cheese">>) @@ ("price" :> <<"1.0">>)
          @@ ("price_delta" :> <<"2.0">>) @@ ("required" :> PyFalse),
          <<"0.4">>),
      Doc(modifiers, <<"o">>,
          ("name" :> <<"Olives">>) @@ ("price" :> Zero)
          @@ ("price_delta" :> <<"2.0">>) @@ ("required" :> PyTrue),
          <<"0.3">>),
      Doc(zones, <<"n">>,
          ("name" :> <<"North">>) @@ ("zone_name" :> <<"Zone N">>)
          @@ ("fee" :> Zero) @@ ("delivery_fee" :> <<"3.0">>),
          <<"0.2">>),
      Doc(hours, <<"m">>,
          ("day_of_week" :> <<"Monday">>) @@ ("open_time" :> <<"09:00">>)
          @@ ("close_time" :> <<"17:00">>) @@ ("is_closed" :> PyFalse),
          <<"0.1">>)>>

\* the documents the store holds for a tenant
Documents(s, restaurant_id) ==
    IF restaurant_id \notin DOMAIN s \/ s[restaurant_id] = 0 THEN <<>>
    ELSE IF restaurant_id = TenantM THEN Catalogue
    ELSE <<Document(restaurant_id, s[restaurant_id])>>

\* lines 43-50: query_category is a parameter only of a search with a category
rpc_params(restaurant_id, category) ==
    IF Truthy(category)
    THEN [query_restaurant_id |-> restaurant_id, match_count |-> limit,
          query_category |-> category]
    ELSE [query_restaurant_id |-> restaurant_id, match_count |-> limit]

\* supabase.rpc("search_documents", rpc_params).execute().data, as the list
\* comprehension of search_knowledge_base reshapes it: the store filters by
\* query_restaurant_id, and by query_category when given, and returns at most
\* match_count rows
search_documents(s, params) ==
    LET held == Documents(s, params.query_restaurant_id)
        matching == IF "query_category" \in DOMAIN params
                    THEN SelectSeq(held,
                                   LAMBDA d : d.category = params.query_category)
                    ELSE held
    IN  Take(matching, params.match_count)

-----------------------------------------------------------------------------
(* The requests *)

NoFunctionCall == [present |-> FALSE, parameters |-> FALSE, query |-> None]

\* a well-formed tool call webhook: the query in the tool call arguments
BaseBody ==
    [ok |-> TRUE, query |-> None, message |-> TRUE,
     functionCall |-> NoFunctionCall,
     toolCalls |-> <<ToolCall(ToolCallId1, get_menu_info, DictArgs(QueryQ))>>,
     messages |-> <<>>,
     metadata_restaurant_id |-> None,
     phoneNumber |-> NoPhone, phone_number |-> NoPhone,
     call |-> FALSE, call_phoneNumber |-> NoPhone, call_phone_number |-> NoPhone]

BaseRequest ==
    [x_vapi_secret |-> vapi_secret_key, x_restaurant_id |-> None,
     query_restaurant_id |-> None, body |-> BaseBody]

\* a POST /cache/invalidate: the header and the CacheInvalidateRequest
NoInvalidate == [x_vapi_secret |-> None, restaurant_id |-> Empty, category |-> None]

\* what is on record about a handler run: the request, the response (status 0:
\* none yet), and what the run touched
NoCall ==
    [ep |-> "none", input |-> BaseRequest, inv |-> NoInvalidate,
     status |-> 0, detail |-> Empty, results |-> <<>>, docs |-> <<>>,
     restaurant_id |-> None, category |-> None, query |-> None,
     phone_lookup |-> None, searched |-> FALSE, hit |-> FALSE,
     embedding_calls |-> 0, store_calls |-> 0,
     timed_out |-> FALSE, error |-> None,
     prior |-> {}, cache_changed |-> FALSE,
     cache_before |-> <<>>, cache_after |-> <<>>, at |-> 0,
     phone |-> None, created |-> FALSE, response |-> <<>>,
     rpc_params |-> <<>>, message |-> None, items |-> <<>>,
     written |-> 0, stale |-> FALSE, evicted |-> FALSE,
     mapping_failed |-> FALSE, pm_before |-> {}]

Slots == {"r1", "r2"}

Idle == [pc |-> "idle", call |-> NoCall]

-----------------------------------------------------------------------------
(* The state machine *)

\* restaurant_phone_mappings as provisioned; raw is the string a row was
\* created from
InitialMappings ==
    {[phone_number |-> PhoneClean, restaurant_id |-> TenantW, raw |-> PhoneClean]}

InitialStore ==
    (TenantT :> 1) @@ (TenantU :> 1) @@ (TenantV :> 1) @@ (TenantW :> 1)
    @@ (TenantTmenu :> 0) @@ (TenantM :> 1)

Init ==
    /\ now = 0
    /\ cache = <<>>
    /\ store = InitialStore
    /\ phone_map = InitialMappings
    /\ req = [r \in Slots |-> Idle]
    /\ last = NoCall
    /\ hist = {}

\* the finished store lookups whose cache entry is still there, and the marks
\* of the entries that expired and were not written again
Remembered(h, c, time) ==
    {x \in h : \/ x.expired
               \/ /\ time < x.at + cache_ttl_seconds
                  /\ HasKey(c, get_cache_key(x.restaurant_id, x.query, x.category))}

\* the mark of an entry that expired
Expired(e) ==
    [restaurant_id |-> e.restaurant_id, category |-> e.category,
     query |-> e.query, results |-> <<>>, at |-> 0, expired |-> TRUE]

SameKey(x, restaurant_id, category, query) ==
    /\ x.restaurant_id = restaurant_id
    /\ x.category = category
    /\ x.query = query

HTTPException(call, status_code, detail) ==
    [call EXCEPT !.status = status_code, !.detail = detail]

\* lines 308-315: an exception e that is no HTTPException leaves the handler as
\* HTTPException(status_code=500, detail=str(e))
InternalError(call, e) == [HTTPException(call, 500, e) EXCEPT !.error = e]

\* `if not query_text:`, `if not tool_call_id:`, `if not restaurant_id:`
\* a test for None only, which lets the empty string through
MissingQuery_NoneOnly(query_text) == query_text = None

MissingQuery(query_text) == ~Truthy(query_text)

MissingToolCallId(tool_call_id) == ~Truthy(tool_call_id)

\* a test for None only, which lets the empty string through
MissingRestaurantId_NoneOnly(restaurant_id) == restaurant_id = None

MissingRestaurantId(restaurant_id) == ~Truthy(restaurant_id)

\* vapi_knowledge_base up to its response or its first suspension, as the
\* record of the run; status 0: suspended in generate_embedding
KnowledgeBaseRun(i, pm_ok) ==
    LET call == [NoCall EXCEPT !.ep = "kb", !.input = i, !.at = now]
        b == i.body
        query_text == extract_query(b)
        tool_call_id == extract_tool_call_id(b)
        tool_name == extract_tool_name(b)
        tenant == ResolveTenant(i, phone_map, pm_ok)
        restaurant_id == tenant.restaurant_id
        category == _map_tool_to_category(tool_name)
        resolved == [call EXCEPT !.phone_lookup = tenant.phone_lookup,
                                 !.mapping_failed = tenant.store_failed]
        \* lines 283-306: the search, answered from the cache when it holds the key
        Lookup(cached) ==
            LET searching ==
                    [resolved EXCEPT
                        !.restaurant_id = restaurant_id,
                        !.category = category,
                        !.query = query_text,
                        !.searched = TRUE,
                        !.hit = cached.found,
                        !.written = cached.written,
                        !.stale = \E y \in hist :
                                     /\ y.expired
                                     /\ SameKey(y, restaurant_id, category,
                                                query_text),
                        !.prior = {x.results : x \in
                                     {y \in hist :
                                        /\ ~y.expired
                                        /\ SameKey(y, restaurant_id, category,
                                                   query_text)}}]
            IN  IF cached.found
                THEN [searching EXCEPT
                         !.status = 200,
                         !.docs = cached.value,
                         !.results = SearchResponse(tool_call_id, cached.value,
                                                    category)]
                ELSE [searching EXCEPT !.embedding_calls = 1]
    IN  IF ~KnowledgeBaseSecretOk(i.x_vapi_secret)
        THEN HTTPException(call, 401, <<"Invalid authentication">>)
        ELSE IF ~b.ok
        THEN HTTPException(call, 422, <<"Invalid request format">>)
        ELSE IF MissingQuery(query_text)
        THEN HTTPException(call, 422, <<"Missing query parameter">>)
        ELSE IF MissingToolCallId(tool_call_id)
        THEN HTTPException(call, 422, <<"Missing toolCallId">>)
        ELSE IF tenant.raised
        THEN InternalError(call, AttributeErrorText)
        ELSE IF MissingRestaurantId(restaurant_id)
        THEN HTTPException(resolved, 422, <<"restaurant_id is required">>)
        ELSE Lookup(get_cached_result(cache, restaurant_id, query_text,
                                      category, now))

\* a POST /knowledge-base arrives and runs until it responds or suspends
Receive(r, i, pm_ok) ==
    /\ req[r].pc = "idle"
    /\ \E run \in {KnowledgeBaseRun(i, pm_ok)} :
         \E read \in {IF run.hit
                      THEN Touch(cache, get_cache_key(run.restaurant_id, run.query,
                                                      run.category))
                      ELSE cache} :
           \E call \in {[run EXCEPT !.cache_changed = (read # cache)]} :
             /\ last' = call
             /\ cache' = read
             /\ req' = IF call.searched /\ ~call.hit
                       THEN [req EXCEPT ![r] = [pc |-> "embedding", call |-> call]]
                       ELSE req
    /\ UNCHANGED <<now, store, phone_map, hist>>

\* a search that caches what the store held before the documents were embedded
\* anew
SearchCompletes_StaleRead(r) ==
    /\ req[r].pc = "embedding"
    /\ now - req[r].call.at < timeout
    /\ LET call == req[r].call
           tool_call_id == extract_tool_call_id(call.input.body)
           params == rpc_params(call.restaurant_id, call.category)
           results == search_documents(InitialStore, params)
       IN  /\ cache' = set_cached_result(cache, call.restaurant_id, call.query,
                                         results, call.category, now)
           /\ last' = [call EXCEPT
                          !.status = 200,
                          !.cache_changed = TRUE,
                          !.docs = results,
                          !.results = SearchResponse(tool_call_id, results,
                                                     call.category),
                          !.rpc_params = params,
                          !.evicted =
                              /\ Len(cache) >= MaxSize
                              /\ ~HasKey(cache, get_cache_key(
                                      call.restaurant_id, call.query,
                                      call.category)),
                          !.store_calls = 1]
           /\ hist' = Remembered(
                          {x \in hist :
                              ~(x.expired /\ SameKey(x, call.restaurant_id,
                                                     call.category, call.query))}
                          \cup {[restaurant_id |-> call.restaurant_id,
                                  category |-> call.category,
                                  query |-> call.query,
                                  results |-> results,
                                  at |-> now, expired |-> FALSE]}, cache', now)
    /\ req' = [req EXCEPT ![r] = Idle]
    /\ UNCHANGED <<now, store, phone_map>>

\* the embedding arrives in time and the store answers: search_knowledge_base
\* caches the results and the handler responds
SearchCompletes(r) ==
    /\ req[r].pc = "embedding"
    /\ now - req[r].call.at < timeout
    /\ LET call == req[r].call
           tool_call_id == extract_tool_call_id(call.input.body)
           params == rpc_params(call.restaurant_id, call.category)
           results == search_documents(store, params)
       IN  /\ cache' = set_cached_result(cache, call.restaurant_id, call.query,
                                         results, call.category, now)
           /\ last' = [call EXCEPT
                          !.status = 200,
                          !.cache_changed = TRUE,
                          !.docs = results,
                          !.results = SearchResponse(tool_call_id, results,
                                                     call.category),
                          !.rpc_params = params,
                          !.evicted =
                              /\ Len(cache) >= MaxSize
                              /\ ~HasKey(cache, get_cache_key(
                                      call.restaurant_id, call.query,
                                      call.category)),
                          !.store_calls = 1]
           /\ hist' = Remembered(
                          {x \in hist :
                              ~(x.expired /\ SameKey(x, call.restaurant_id,
                                                     call.category, call.query))}
                          \cup {[restaurant_id |-> call.restaurant_id,
                                  category |-> call.category,
                                  query |-> call.query,
                                  results |-> results,
                                  at |-> now, expired |-> FALSE]}, cache', now)
    /\ req' = [req EXCEPT ![r] = Idle]
    /\ UNCHANGED <<now, store, phone_map>>

\* a store call that is made again after it raised
StoreFails_Retries(r) ==
    /\ req[r].pc = "embedding"
    /\ now - req[r].call.at < timeout
    /\ last' = [InternalError(req[r].call, StoreErrorText) EXCEPT
                   !.store_calls = 2]
    /\ req' = [req EXCEPT ![r] = Idle]
    /\ UNCHANGED <<now, cache, store, phone_map, hist>>

\* the embedding arrives in time and the store call raises
StoreFails(r) ==
    /\ req[r].pc = "embedding"
    /\ now - req[r].call.at < timeout
    /\ last' = [InternalError(req[r].call, StoreErrorText) EXCEPT
                   !.store_calls = 1]
    /\ req' = [req EXCEPT ![r] = Idle]
    /\ UNCHANGED <<now, cache, store, phone_map, hist>>

\* generate_embedding raises
EmbeddingFails(r) ==
    /\ req[r].pc = "embedding"
    /\ now - req[r].call.at < timeout
    /\ last' = InternalError(req[r].call, EmbeddingErrorText)
    /\ req' = [req EXCEPT ![r] = Idle]
    /\ UNCHANGED <<now, cache, store, phone_map, hist>>

\* a timeout that answers and leaves the search running to its cache write
Timeout_Abandons(r) ==
    /\ req[r].pc = "embedding"
    /\ now - req[r].call.at >= timeout
    /\ last' = [req[r].call EXCEPT
                   !.status = 200,
                   !.timed_out = TRUE,
                   !.results = TimeoutResponse(
                                   extract_tool_call_id(req[r].call.input.body))]
    /\ cache' = set_cached_result(
                    cache, req[r].call.restaurant_id, req[r].call.query,
                    search_documents(store, rpc_params(req[r].call.restaurant_id,
                                                       req[r].call.category)),
                    req[r].call.category, now)
    /\ req' = [req EXCEPT ![r] = Idle]
    /\ UNCHANGED <<now, store, phone_map, hist>>

\* asyncio.wait_for gives up on the search after `timeout` seconds: it cancels
\* search_knowledge_base, suspended at line 41, before the handler answers
Timeout(r) ==
    /\ req[r].pc = "embedding"
    /\ now - req[r].call.at >= timeout
    /\ last' = [req[r].call EXCEPT
                   !.status = 200,
                   !.timed_out = TRUE,
                   !.results = TimeoutResponse(
                                   extract_tool_call_id(req[r].call.input.body))]
    /\ req' = [req EXCEPT ![r] = Idle]
    /\ UNCHANGED <<now, cache, store, phone_map, hist>>

\* a POST /cache/invalidate
Invalidate(i) ==
    /\ LET call == [NoCall EXCEPT !.ep = "invalidate", !.inv = i,
                                  !.cache_before = cache, !.cache_after = cache,
                                  !.at = now]
           cleared == clear_cache(cache, i.restaurant_id, i.category, now)
       IN  IF ~verify_vapi_secret(i.x_vapi_secret)
           THEN /\ last' = HTTPException(call, 401, <<"Invalid authentication">>)
                /\ UNCHANGED <<cache, hist>>
           ELSE /\ cache' = cleared
                /\ last' = [call EXCEPT !.status = 200,
                                        !.cache_after = cleared,
                                        !.cache_changed = (cleared # cache)]
                /\ hist' = Remembered(hist, cleared, now)
    /\ UNCHANGED <<now, store, phone_map, req>>

\* a POST /assistant-request
AssistantRequest(b, pm_ok) ==
    /\ last' = [NoCall EXCEPT
                   !.ep = "assistant", !.input = [BaseRequest EXCEPT !.body = b],
                   !.status = 200, !.at = now,
                   !.phone = ExtractPhone(b),
                   !.phone_lookup = IF b.ok THEN PhoneQueryKey(ExtractPhone(b))
                                    ELSE None,
                   !.response = vapi_assistant_request(b, phone_map, pm_ok)]
    /\ UNCHANGED <<now, cache, store, phone_map, req, hist>>

\* the provisioning side calls create_phone_mapping
CreatePhoneMapping(phone_number, restaurant_id, store_ok) ==
    /\ LET made == create_phone_mapping(phone_map, phone_number, restaurant_id,
                                        store_ok)
       IN  /\ phone_map' = made.pm
           /\ last' = [NoCall EXCEPT
                          !.ep = "create_phone_mapping", !.at = now,
                          !.phone = phone_number,
                          !.restaurant_id = restaurant_id,
                          !.created = made.ok]
    /\ UNCHANGED <<now, cache, store, req, hist>>

\* a caller of get_restaurant_id_from_phone
PhoneLookup(phone_number, store_ok) ==
    /\ last' = [NoCall EXCEPT
                   !.ep = "get_restaurant_id_from_phone", !.at = now,
                   !.phone = phone_number,
                   !.phone_lookup = PhoneQueryKey(phone_number),
                   !.mapping_failed = Truthy(phone_number) /\ ~store_ok,
                   !.restaurant_id =
                       get_restaurant_id_from_phone(phone_map, phone_number,
                                                    store_ok)]
    /\ UNCHANGED <<now, cache, store, phone_map, req, hist>>

\* a caller of build_no_result
BuildNoResult(tool_call_id, category, message) ==
    /\ last' = [NoCall EXCEPT
                   !.ep = "build_no_result", !.at = now,
                   !.category = category, !.message = message,
                   !.results = build_no_result(tool_call_id, category, message)]
    /\ UNCHANGED <<now, cache, store, phone_map, req, hist>>

\* a caller of build_structured_items
BuildStructuredItems(results, category) ==
    /\ last' = [NoCall EXCEPT
                   !.ep = "build_structured_items", !.at = now,
                   !.category = category, !.docs = results,
                   !.items = build_structured_items(results, category)]
    /\ UNCHANGED <<now, cache, store, phone_map, req, hist>>

\* a caller of VapiRequest.extract_query
ExtractQuery(b) ==
    /\ last' = [NoCall EXCEPT
                   !.ep = "extract_query", !.at = now,
                   !.input = [BaseRequest EXCEPT !.body = b],
                   !.query = extract_query(b)]
    /\ UNCHANGED <<now, cache, store, phone_map, req, hist>>

\* assign_phone_to_restaurant returns phone_number (None: nothing assigned)
AssignReturns(r, call, phone_number) ==
    /\ last' = [call EXCEPT !.status = 200, !.phone = phone_number]
    /\ req' = [req EXCEPT ![r] = [pc |-> "assigned", call |-> last']]

\* assign_phone_to_restaurant, lines 26-80: the configuration, the shared
\* assistant, and the choice of an existing number without a mapping
AssignBegin(r, restaurant_id, force_twilio, env) ==
    /\ req[r].pc = "idle"
    /\ LET call == [NoCall EXCEPT !.ep = "assign_phone_to_restaurant",
                                  !.restaurant_id = restaurant_id,
                                  !.at = now, !.pm_before = phone_map]
           available_phone ==
               IF force_twilio THEN None
               ELSE AvailablePhone(phone_map, env.phone_numbers, env.store_ok)
           chosen == [call EXCEPT !.phone = available_phone]
       IN  IF ~env.configured
           THEN AssignReturns(r, call, None)
           ELSE /\ last' = chosen
                /\ req' = [req EXCEPT ![r] =
                              [pc |-> IF Truthy(available_phone)
                                      THEN "assign_existing"
                                      ELSE "assign_twilio",
                               call |-> chosen]]
    /\ UNCHANGED <<now, cache, store, phone_map, hist>>

\* lines 82-88: the number is attached to the shared assistant and the mapping
\* is written; a mapping that was not written leads on to Twilio
AssignExisting(r, vapi_ok, store_ok) ==
    /\ req[r].pc = "assign_existing"
    /\ LET call == req[r].call
           made == create_phone_mapping(phone_map, call.phone,
                                        call.restaurant_id, store_ok)
       IN  IF ~vapi_ok
           THEN AssignReturns(r, call, None) /\ phone_map' = phone_map
           ELSE /\ phone_map' = made.pm
                /\ IF made.ok
                   THEN AssignReturns(r, call, call.phone)
                   ELSE /\ last' = [call EXCEPT !.phone = None]
                        /\ req' = [req EXCEPT ![r] =
                                      [pc |-> "assign_twilio", call |-> last']]
    /\ UNCHANGED <<now, cache, store, hist>>

\* lines 91-110: create_and_assign_twilio_phone when Twilio is configured
AssignTwilio(r, twilio_configured, tw) ==
    /\ req[r].pc = "assign_twilio"
    /\ LET call == req[r].call
           assigned == create_and_assign_twilio_phone(phone_map,
                                                      call.restaurant_id, tw)
       IN  IF ~twilio_configured
           THEN AssignReturns(r, call, None) /\ phone_map' = phone_map
           ELSE AssignReturns(r, call, assigned.phone) /\ phone_map' = assigned.pm
    /\ UNCHANGED <<now, cache, store, hist>>

\* the caller has its answer
AssignEnds(r) ==
    /\ req[r].pc = "assigned"
    /\ req' = [req EXCEPT ![r] = Idle]
    /\ UNCHANGED <<now, cache, store, phone_map, last, hist>>

\* time passes
Tick ==
    /\ now + TickStep <= MaxTime
    /\ now' = now + TickStep
    /\ cache' = expire(cache, now')
    /\ hist' = Remembered(hist, cache', now')
                   \cup {Expired(cache[k]) :
                            k \in {j \in 1..Len(cache) :
                                      cache[j].expires <= now'}}
    /\ UNCHANGED <<store, phone_map, req, last>>

\* a tenant's documents are embedded anew (generate_embeddings_for_restaurant)
UpdateStore(t) ==
    /\ store[t] < MaxVersion
    /\ store' = [store EXCEPT ![t] = store[t] + 1]
    /\ UNCHANGED <<now, cache, phone_map, req, last, hist>>

-----------------------------------------------------------------------------------------------------------------------------------------------------
(* The requests the specifications draw from.  The header names the tenant *)
(* and the tool call carries the tool and the query, unless said otherwise. *)

BodyWith(tool_name, query) ==
    [BaseBody EXCEPT !.toolCalls = <<ToolCall(ToolCallId1, tool_name, DictArgs(query))>>]

Request(x_restaurant_id, tool_name, query) ==
    [BaseRequest EXCEPT !.x_restaurant_id = x_restaurant_id,
                        !.body = BodyWith(tool_name, query)]

InvalidateRequest(x_vapi_secret, restaurant_id, category) ==
    [x_vapi_secret |-> x_vapi_secret, restaurant_id |-> restaurant_id,
     category |-> category]

-----------------------------------------------------------------------------
(* Spec: two requests in flight together, for two tenants.                 *)

Requests ==
    {Request(TenantT, get_menu_info, QueryQ),
     Request(TenantU, get_menu_info, QueryQ)}

Invalidations ==
    {InvalidateRequest(vapi_secret_key, TenantT, None),
     InvalidateRequest(WrongSecret, TenantT, None)}

Next ==
    \/ \E r \in Slots, i \in Requests, pm_ok \in BOOLEAN : Receive(r, i, pm_ok)
    \/ \E r \in Slots : SearchCompletes(r)
    \/ \E r \in Slots : StoreFails(r)
    \/ \E r \in Slots : EmbeddingFails(r)
    \/ \E r \in Slots : Timeout(r)
    \/ \E i \in Invalidations : Invalidate(i)
    \/ \E t \in {TenantT} : UpdateStore(t)
    \/ Tick

Spec == Init /\ [][Next]_vars

-----------------------------------------------------------------------------
(* SpecKeys: one request at a time, over tenant ids and query texts that   *)
(* hold the separator of the cache key.                                    *)

KeyRequests ==
    {Request(TenantT, get_menu_info, QueryAllQ),
     Request(TenantTmenu, None, QueryQ),
     Request(TenantT, get_hours_info, QueryXmenuY),
     Request(TenantU, get_menu_info, QueryQ)}

KeyInvalidations ==
    {InvalidateRequest(vapi_secret_key, TenantT, None),
     InvalidateRequest(vapi_secret_key, TenantT, menu),
     InvalidateRequest(vapi_secret_key, TenantU, None),
     InvalidateRequest(WrongSecret, TenantT, None)}

NextKeys ==
    \/ \E i \in KeyRequests, pm_ok \in BOOLEAN : Receive("r1", i, pm_ok)
    \/ SearchCompletes("r1")
    \/ StoreFails("r1")
    \/ EmbeddingFails("r1")
    \/ Timeout("r1")
    \/ \E i \in KeyInvalidations : Invalidate(i)
    \/ \E t \in {TenantT} : UpdateStore(t)
    \/ Tick

SpecKeys == Init /\ [][NextKeys]_vars

-----------------------------------------------------------------------------------------------------------------------------------------------------
(* SpecResolve: one request at a time, at one instant of the clock, over   *)
(* the identity signals: header, query parameter, metadata, phone number.  *)

SignalRequests ==
    {[BaseRequest EXCEPT
         !.x_restaurant_id = h,
         !.query_restaurant_id = qp,
         !.body = [BaseBody EXCEPT !.metadata_restaurant_id = m,
                                   !.phoneNumber = ph]] :
        h \in {None, TenantT},
        qp \in {None, TenantV},
        m \in {None, TenantU, PaddedU, Blank, NotAString},
        ph \in {NoPhone, StrPhone(PhoneFormatted), StrPhone(PhoneUnknown)}}

NextResolve ==
    \/ \E i \in SignalRequests, pm_ok \in BOOLEAN : Receive("r1", i, pm_ok)
    \/ SearchCompletes("r1")
    \/ StoreFails("r1")
    \/ EmbeddingFails("r1")

SpecResolve == Init /\ [][NextResolve]_vars

-----------------------------------------------------------------------------
(* SpecReject: one request at a time, over requests the handlers reject:   *)
(* a missing or wrong secret, an unparseable body, no query, no tool call  *)
(* id.  Each carries a phone number that has a mapping.                    *)

RejectedBodies ==
    {BaseBody,
     [BaseBody EXCEPT !.ok = FALSE],
     [BaseBody EXCEPT !.toolCalls = <<ToolCall(ToolCallId1, get_menu_info, NoArgs)>>],
     [BaseBody EXCEPT !.toolCalls = <<ToolCall(ToolCallId1, get_menu_info, DictArgs(Empty))>>],
     [BaseBody EXCEPT !.toolCalls = <<ToolCall(None, get_menu_info, DictArgs(QueryQ))>>],
     [BaseBody EXCEPT !.query = QueryQ, !.toolCalls = <<>>]}

RejectedRequests ==
    {[BaseRequest EXCEPT
         !.x_vapi_secret = secret,
         !.body = [b EXCEPT !.call = TRUE,
                            !.call_phoneNumber = DictPhone(PhoneFormatted, None)]] :
        secret \in {None, Empty, WrongSecret, vapi_secret_key},
        b \in RejectedBodies}

RejectInvalidations ==
    {InvalidateRequest(secret, TenantW, None) :
        secret \in {None, Empty, WrongSecret, vapi_secret_key}}

NextReject ==
    \/ \E i \in RejectedRequests, pm_ok \in BOOLEAN : Receive("r1", i, pm_ok)
    \/ SearchCompletes("r1")
    \/ StoreFails("r1")
    \/ EmbeddingFails("r1")
    \/ Timeout("r1")
    \/ \E i \in RejectInvalidations : Invalidate(i)
    \/ Tick

SpecReject == Init /\ [][NextReject]_vars

-----------------------------------------------------------------------------
(* SpecPhone: the Phone Mapping, written by create_phone_mapping and read  *)
(* by get_restaurant_id_from_phone and /assistant-request.                 *)

PhoneStrings ==
    {Empty, <<" ">>, <<"1", "2">>, <<"1", "-", "2">>,
     <<"(", "1", ")", " ", "2">>, <<"2", "1">>}

\* the shapes a webhook carries a phone number in
PhoneBodies ==
    {[BaseBody EXCEPT !.ok = FALSE], BaseBody, [BaseBody EXCEPT !.message = FALSE]}
    \cup {[BaseBody EXCEPT !.phoneNumber = StrPhone(p)] : p \in PhoneStrings}
    \cup {[BaseBody EXCEPT !.phone_number = DictPhone(p, None)] : p \in PhoneStrings}
    \cup {[BaseBody EXCEPT !.call = TRUE,
                           !.call_phoneNumber = DictPhone(None, p)] :
              p \in PhoneStrings}
    \cup {[BaseBody EXCEPT !.phoneNumber = DictPhone(None, None), !.call = TRUE,
                           !.call_phone_number = StrPhone(p)] :
              p \in PhoneStrings}
    \cup {[BaseBody EXCEPT !.phoneNumber = StrPhone(<<"1", "2">>), !.call = TRUE,
                           !.call_phoneNumber = StrPhone(<<"2", "1">>)],
          [BaseBody EXCEPT !.call = FALSE,
                           !.call_phoneNumber = StrPhone(<<"1", "2">>)]}

NextPhone ==
    \/ \E p \in PhoneStrings, t \in {TenantT, TenantU, Empty},
          store_ok \in BOOLEAN : CreatePhoneMapping(p, t, store_ok)
    \/ \E p \in PhoneStrings, store_ok \in BOOLEAN : PhoneLookup(p, store_ok)
    \/ \E b \in PhoneBodies, pm_ok \in BOOLEAN : AssistantRequest(b, pm_ok)

SpecPhone == Init /\ [][NextPhone]_vars

-----------------------------------------------------------------------------
(* SpecShape: one request at a time for a tenant with documents of every   *)
(* category, under every tool.  SpecItems: build_structured_items on its   *)
(* own, over result lists and categories.                                  *)

Tools ==
    {get_menu_info, get_modifiers_info, get_hours_info, get_zones_info,
     other_tool, None}

drinks == <<"drinks">>

ShapeRequests == {Request(TenantM, tool, QueryQ) : tool \in Tools}

\* result lists: what the store returns for TenantM, and shorter ones
ResultLists ==
    {SubSeq(Catalogue, a, b) : a \in 1..Len(Catalogue), b \in 0..Len(Catalogue)}

NextShape ==
    \/ \E i \in ShapeRequests : Receive("r1", i, TRUE)
    \/ SearchCompletes("r1")

SpecShape == Init /\ [][NextShape]_vars

NextItems ==
    \E results \in ResultLists,
       category \in {menu, modifiers, hours, zones, drinks, None} :
        BuildStructuredItems(results, category)

SpecItems == Init /\ [][NextItems]_vars

-----------------------------------------------------------------------------
(* SpecEmpty: one request at a time for a tenant without documents, under  *)
(* every tool, and build_no_result on its own.                             *)

TenantX == <<"X">>

CustomMessage == <<"Please ask a member of staff.">>

EmptyRequests == {Request(TenantX, tool, QueryQ) : tool \in Tools}

NextEmpty ==
    \/ \E i \in EmptyRequests : Receive("r1", i, TRUE)
    \/ SearchCompletes("r1")
    \/ \E tool_call_id \in {ToolCallId1, ToolCallId2},
          category \in {menu, modifiers, hours, zones, drinks, None},
          message \in {None, Empty, CustomMessage, DelayMessage} :
            BuildNoResult(tool_call_id, category, message)

SpecEmpty == Init /\ [][NextEmpty]_vars

-----------------------------------------------------------------------------
(* SpecEcho: one request at a time, over the three ways to a success       *)
(* response, with the tool call id in the first or in the second tool call. *)

EchoRequests ==
    {Request(TenantM, get_menu_info, QueryQ),
     [Request(TenantX, get_hours_info, QueryQ) EXCEPT
         !.body.toolCalls =
             <<ToolCall(None, get_hours_info, DictArgs(QueryQ)),
               ToolCall(ToolCallId2, None, NoArgs)>>],
     [Request(TenantM, None, QueryQ) EXCEPT
         !.body.toolCalls =
             <<ToolCall(Empty, get_zones_info, DictArgs(QueryQ)),
               ToolCall(ToolCallId2, get_menu_info, NoArgs)>>]}

NextEcho ==
    \/ \E i \in EchoRequests : Receive("r1", i, TRUE)
    \/ SearchCompletes("r1")
    \/ StoreFails("r1")
    \/ EmbeddingFails("r1")
    \/ Timeout("r1")
    \/ Tick

SpecEcho == Init /\ [][NextEcho]_vars

-----------------------------------------------------------------------------
(* SpecQuery: extract_query over bodies that carry a query, an empty query *)
(* or none in each of their shapes.                                        *)

QueryTop == <<"top">>
QueryFn == <<"fn">>
QueryTool == <<"tool">>
QueryMsg == <<"msg">>

Message(content) == [has_content |-> TRUE, content |-> content]
NoContent == [has_content |-> FALSE, content |-> None]

QueryBodies ==
    {[BaseBody EXCEPT !.query = q, !.functionCall = f, !.toolCalls = tcs,
                      !.messages = msgs] :
        q \in {None, Empty, QueryTop},
        f \in {NoFunctionCall,
               [present |-> TRUE, parameters |-> FALSE, query |-> None],
               [present |-> TRUE, parameters |-> TRUE, query |-> None],
               [present |-> TRUE, parameters |-> TRUE, query |-> Empty],
               [present |-> TRUE, parameters |-> TRUE, query |-> QueryFn]},
        tcs \in {<<>>,
                 <<ToolCall(ToolCallId1, get_menu_info, DictArgs(QueryTool))>>,
                 <<ToolCall(ToolCallId1, get_menu_info, JsonArgs(QueryTool))>>,
                 <<ToolCall(ToolCallId1, get_menu_info, DictArgs(None))>>,
                 <<ToolCall(ToolCallId1, get_menu_info, NoArgs),
                   ToolCall(ToolCallId2, get_menu_info, DictArgs(QueryTool))>>,
                 <<ToolCall(ToolCallId1, get_menu_info, DictArgs(Empty)),
                   ToolCall(ToolCallId2, get_menu_info, JsonArgs(QueryTool))>>,
                 <<ToolCall(ToolCallId1, get_menu_info,
                            [t |-> "badjson", query |-> None]),
                   ToolCall(ToolCallId2, get_menu_info, DictArgs(QueryTool))>>},
        msgs \in {<<>>,
                  <<Message(QueryMsg)>>,
                  <<Message(QueryMsg), NoContent>>,
                  <<Message(QueryMsg), Message(Empty)>>}}

NextQuery == \E b \in QueryBodies : ExtractQuery(b)

SpecQuery == Init /\ [][NextQuery]_vars

-----------------------------------------------------------------------------
(* SpecFallback: one request at a time whose only identity signal is the   *)
(* caller's phone number, at the message level or in the nested call       *)
(* object, as a string or as an object, sent to /knowledge-base and to     *)
(* /assistant-request.  Half of the bodies carry no query.                 *)

LevelValues ==
    {NoPhone, StrPhone(Empty), StrPhone(PhoneFormatted), StrPhone(PhoneUnknown),
     DictPhone(PhoneFormatted, None), DictPhone(None, PhoneClean),
     DictPhone(None, None), OtherPhone}

NoQueryBody ==
    [BaseBody EXCEPT !.toolCalls = <<ToolCall(ToolCallId1, get_menu_info, NoArgs)>>]

FallbackBodies ==
    {[b EXCEPT !.phoneNumber = top, !.call = TRUE, !.call_phone_number = nested] :
        b \in {BaseBody, NoQueryBody}, top \in LevelValues,
        nested \in {NoPhone, StrPhone(PhoneFormatted), StrPhone(PhoneUnknown),
                    DictPhone(PhoneFormatted, None)}}
    \cup {[BaseBody EXCEPT !.call_phone_number = nested] :
             nested \in {StrPhone(PhoneFormatted),
                         DictPhone(PhoneFormatted, None)}}
    \cup {[BaseBody EXCEPT !.phone_number = top, !.call = TRUE,
                           !.call_phoneNumber = nested] :
             top \in {NoPhone, StrPhone(PhoneUnknown)},
             nested \in {StrPhone(PhoneFormatted), DictPhone(PhoneFormatted, None),
                         OtherPhone}}
    \cup {[BaseBody EXCEPT !.message = FALSE,
                           !.phoneNumber = StrPhone(PhoneFormatted)]}

FallbackRequests == {[BaseRequest EXCEPT !.body = b] : b \in FallbackBodies}

NextFallback ==
    \/ \E i \in FallbackRequests, pm_ok \in BOOLEAN : Receive("r1", i, pm_ok)
    \/ SearchCompletes("r1")
    \/ \E b \in FallbackBodies, pm_ok \in BOOLEAN : AssistantRequest(b, pm_ok)
    \/ \E p \in {PhoneFormatted, PhoneUnknown}, store_ok \in BOOLEAN :
          PhoneLookup(p, store_ok)

SpecFallback == Init /\ [][NextFallback]_vars

-----------------------------------------------------------------------------
(* SpecAssign: one assign_phone_to_restaurant at a time, for two new       *)
(* restaurants, over what Vapi, Twilio and the mapping store answer.       *)
(* SpecProvision: two such calls together, Twilio not being configured.    *)

PhoneNew == <<"+", "5", "5">>

\* manager.client.list_phone_numbers()
VapiNumbers ==
    <<[number |-> PhoneClean, mine |-> TRUE],
      [number |-> PhoneUnknown, mine |-> FALSE]>>

Environments ==
    [configured : BOOLEAN, phone_numbers : {<<>>, VapiNumbers},
     store_ok : BOOLEAN]

TwilioAnswers ==
    [credential : BOOLEAN,
     existing_numbers : {<<>>, <<PhoneClean>>},
     available_numbers : {<<>>, <<PhoneNew>>},
     purchase : {"ok", "trial_limit", "purchase_failed"},
     vapi_ok : BOOLEAN, store_ok : BOOLEAN]

NextAssign ==
    \/ \E restaurant_id \in {TenantT, TenantU}, force_twilio \in BOOLEAN,
          env \in Environments :
          AssignBegin("r1", restaurant_id, force_twilio, env)
    \/ \E vapi_ok \in BOOLEAN, store_ok \in BOOLEAN :
          AssignExisting("r1", vapi_ok, store_ok)
    \/ \E twilio_configured \in BOOLEAN, tw \in TwilioAnswers :
          AssignTwilio("r1", twilio_configured, tw)
    \/ AssignEnds("r1")

SpecAssign == Init /\ [][NextAssign]_vars

NextProvision ==
    \/ \E r \in Slots, restaurant_id \in {TenantT, TenantU} :
          AssignBegin(r, restaurant_id, FALSE,
                      [configured |-> TRUE, phone_numbers |-> VapiNumbers,
                       store_ok |-> TRUE])
    \/ \E r \in Slots, store_ok \in BOOLEAN : AssignExisting(r, TRUE, store_ok)
    \/ \E r \in Slots, tw \in TwilioAnswers : AssignTwilio(r, FALSE, tw)
    \/ \E r \in Slots : AssignEnds(r)

SpecProvision == Init /\ [][NextProvision]_vars

-----
(* Properties of Spec *)

\* a run of /knowledge-base that has responded
Responded == last.ep = "kb" /\ last.status # 0

\* C1: the documents of a success response to a request resolved to one tenant
\* are documents the Knowledge Store holds for that very tenant, also when they
\* come out of the cache.
C1_CrossTenantIsolation ==
    (Responded /\ last.status = 200) =>
        \A k \in 1..Len(last.docs) : last.docs[k].owner = last.restaurant_id

\* C5: a search that runs into the 15 second timeout is answered with status
\* 200 and one tool result whose text is the fixed delay message.
C5_TimeoutDegrades ==
    (Responded /\ last.timed_out) =>
        /\ last.status = 200
        /\ last.results =
              <<[toolCallId |-> extract_tool_call_id(last.input.body),
                 result |-> DelayMessage]>>

\* C6: a lookup that starts after an identical lookup completed with a store
\* result, within the TTL of that completion and with the entry neither cleared
\* nor evicted since, returns that same result and calls neither the embedding
\* provider nor the Knowledge Store.
C6_CacheIdempotence ==
    (last.ep = "kb" /\ last.searched) =>
        \A earlier \in last.prior :
            /\ last.hit
            /\ last.docs = earlier
            /\ last.embedding_calls = 0
            /\ last.store_calls = 0

\* C10: when the embedding provider or the Knowledge Store raises, the caller
\* gets a 500 whose detail does not contain the text of the internal error.
C10_UpstreamFailureOpaque ==
    (Responded /\ last.error \in {EmbeddingErrorText, StoreErrorText}) =>
        /\ last.status = 500
        /\ ~Contains(last.detail, last.error)

-----------------------------------------------------------------------------
(* Properties of SpecKeys *)

\* a run of /cache/invalidate that cleared
Cleared == last.ep = "invalidate" /\ last.status = 200

Entries(c) == {c[k] : k \in 1..Len(c)}

\* C7: clear(tenant, None) leaves no entry stored for that tenant and leaves
\* every entry stored for another tenant in place, unchanged.
C7_ClearTenant ==
    (Cleared /\ last.inv.category = None) =>
        /\ \A e \in Entries(last.cache_after) :
              e.restaurant_id # last.inv.restaurant_id
        /\ \A e \in Entries(last.cache_before) :
              e.restaurant_id # last.inv.restaurant_id
                  => e \in Entries(last.cache_after)

\* C8: clear(tenant, c) leaves no entry stored for that tenant and category c,
\* and leaves every other entry in place: the tenant's entries of another or of
\* no category, whatever their query text, and the entries of other tenants.
C8_ClearCategory ==
    (Cleared /\ last.inv.category # None) =>
        /\ \A e \in Entries(last.cache_after) :
              ~(e.restaurant_id = last.inv.restaurant_id
                /\ e.category = last.inv.category)
        /\ \A e \in Entries(last.cache_before) :
              ~(e.restaurant_id = last.inv.restaurant_id
                /\ e.category = last.inv.category)
                  => e \in Entries(last.cache_after)

-----------------------------------------------------------------------------
(* Properties of SpecResolve *)

\* metadata.restaurant_id as a tenant id: the stripped string, None without one
MetadataTenant(i) ==
    LET m == i.body.metadata_restaurant_id
    IN  IF Truthy(m) /\ m # NotAString THEN Strip(m) ELSE None

\* the tenant the Phone Mapping holds for the phone number of the body
PhoneTenant(i) ==
    get_restaurant_id_from_phone(phone_map, ExtractPhone(i.body), TRUE)

\* the request passes authentication and validation, and its metadata tenant
\* id, if it has one, is a string
WellFormed(i) ==
    /\ KnowledgeBaseSecretOk(i.x_vapi_secret)
    /\ i.body.ok
    /\ Truthy(extract_query(i.body))
    /\ Truthy(extract_tool_call_id(i.body))
    /\ i.body.metadata_restaurant_id # NotAString

TenantRequired ==
    last.status = 422 /\ last.detail = <<"restaurant_id is required">>

NothingSearched ==
    ~last.searched /\ last.embedding_calls = 0 /\ last.store_calls = 0
    /\ ~last.cache_changed

\* C2 as stated: header, then metadata, then phone mapping.  A non-empty header
\* is the tenant of the search; without one the metadata tenant id is; the
\* Phone Mapping Store is consulted only when both are empty.
C2_PriorityChain ==
    LET h == last.input.x_restaurant_id
        m == MetadataTenant(last.input)
    IN  /\ (last.ep = "kb" /\ last.searched) =>
              /\ Truthy(h) => last.restaurant_id = h
              /\ (~Truthy(h) /\ Truthy(m)) => last.restaurant_id = m
        /\ (last.ep = "kb" /\ last.phone_lookup # None) =>
              ~Truthy(h) /\ ~Truthy(m)

\* C2 as amended: header, then the restaurant_id query parameter, then the
\* stripped metadata tenant id, then phone mapping; the Phone Mapping Store is
\* consulted only when the first three are empty.
C2_PriorityChainAmended ==
    LET h == last.input.x_restaurant_id
        qp == last.input.query_restaurant_id
        m == MetadataTenant(last.input)
    IN  /\ (last.ep = "kb" /\ last.searched) =>
              /\ Truthy(h) => last.restaurant_id = h
              /\ (~Truthy(h) /\ Truthy(qp)) => last.restaurant_id = qp
              /\ (~Truthy(h) /\ ~Truthy(qp) /\ Truthy(m)) => last.restaurant_id = m
              /\ (~Truthy(h) /\ ~Truthy(qp) /\ ~Truthy(m)) =>
                    /\ last.phone_lookup # None
                    /\ last.restaurant_id = PhoneTenant(last.input)
        /\ (last.ep = "kb" /\ last.phone_lookup # None) =>
              ~Truthy(h) /\ ~Truthy(qp) /\ ~Truthy(m)

\* a search for the header's tenant although query parameter, metadata and
\* phone mapping each name another tenant
C2_Witness ==
    /\ last.ep = "kb" /\ last.searched
    /\ last.input.x_restaurant_id = TenantT
    /\ last.input.query_restaurant_id = TenantV
    /\ MetadataTenant(last.input) = TenantU
    /\ PhoneTenant(last.input) = TenantW
    /\ last.restaurant_id = TenantT

\* C3 as stated: a request for which neither header nor metadata nor phone
\* mapping yields a tenant id is rejected with the 422 "tenant required" and
\* touches neither cache nor embedding provider nor Knowledge Store; and a search
\* always has a non-empty tenant id.
C3_TenantRequired ==
    LET i == last.input
    IN  /\ (last.ep = "kb" /\ WellFormed(i)
            /\ ~Truthy(i.x_restaurant_id)
            /\ ~Truthy(MetadataTenant(i))
            /\ ~Truthy(PhoneTenant(i))) =>
              TenantRequired /\ NothingSearched
        /\ (last.ep = "kb" /\ last.searched) => Truthy(last.restaurant_id)

\* C3 as amended: the same, of a request for which neither header nor query
\* parameter nor metadata nor phone mapping yields a tenant id.
C3_TenantRequiredAmended ==
    LET i == last.input
    IN  /\ (last.ep = "kb" /\ WellFormed(i)
            /\ ~Truthy(i.x_restaurant_id)
            /\ ~Truthy(i.query_restaurant_id)
            /\ ~Truthy(MetadataTenant(i))
            /\ ~Truthy(PhoneTenant(i))) =>
              TenantRequired /\ NothingSearched
        /\ (last.ep = "kb" /\ last.searched) => Truthy(last.restaurant_id)

\* a rejection after the Phone Mapping Store was asked and had no mapping
C3_Witness ==
    /\ last.ep = "kb" /\ TenantRequired
    /\ last.input.body.metadata_restaurant_id = Blank
    /\ last.phone_lookup = NormalizePhone(PhoneUnknown)

-----------------------------------------------------------------------------
(* Properties of SpecReject *)

NothingResolved == last.phone_lookup = None /\ NothingSearched

\* C4: an authenticated request without query text is rejected with 422
\* "missing query", one with a query and without tool call id with 422 "missing
\* invocation id", both before tenant resolution: Phone Mapping Store, cache,
\* embedding provider and Knowledge Store are not touched.
C4_MalformedBeforeResolution ==
    LET b == last.input.body
    IN  (last.ep = "kb" /\ KnowledgeBaseSecretOk(last.input.x_vapi_secret)) =>
            /\ ~Truthy(extract_query(b)) =>
                  /\ last.status = 422
                  /\ b.ok => last.detail = <<"Missing query parameter">>
                  /\ NothingResolved
            /\ (b.ok /\ Truthy(extract_query(b))
                /\ ~Truthy(extract_tool_call_id(b))) =>
                  /\ last.status = 422
                  /\ last.detail = <<"Missing toolCallId">>
                  /\ NothingResolved

\* a "missing invocation id" rejection of a request whose phone number has a
\* mapping
C4_Witness ==
    /\ last.ep = "kb"
    /\ last.detail = <<"Missing toolCallId">>
    /\ Truthy(PhoneTenant(last.input))

-----------------------------------------------------------------------------
(* Properties of SpecPhone *)

RECURSIVE WithoutFormatting(_)
\* a phone string without its spaces, parentheses and hyphens
WithoutFormatting(p) ==
    IF p = <<>> THEN <<>>
    ELSE IF Head(p) \in {" ", "(", ")", "-"} THEN WithoutFormatting(Tail(p))
    ELSE <<Head(p)>> \o WithoutFormatting(Tail(p))

\* the lookup on record and a lookup of q agree on key and tenant
SameResolution(q) ==
    /\ PhoneQueryKey(q) = last.phone_lookup
    /\ get_restaurant_id_from_phone(phone_map, q, TRUE) = last.restaurant_id

\* a lookup of a phone string that the mapping store answered
LookedUp ==
    /\ last.ep = "get_restaurant_id_from_phone"
    /\ last.restaurant_id
           = get_restaurant_id_from_phone(phone_map, last.phone, TRUE)

\* C11 as stated: a lookup of any phone string asks the mapping store for the
\* same key, and yields the same tenant, as the lookup of every string that
\* differs from it only in spaces, parentheses and hyphens.
C11_PhoneFormatInvariant ==
    LookedUp =>
        \A q \in PhoneStrings :
            WithoutFormatting(q) = WithoutFormatting(last.phone)
                => SameResolution(q)

\* C11 as amended: the same of any two non-empty phone strings.
C11_PhoneFormatInvariantAmended ==
    (LookedUp /\ last.phone # Empty) =>
        \A q \in PhoneStrings \ {Empty} :
            WithoutFormatting(q) = WithoutFormatting(last.phone)
                => SameResolution(q)

\* a lookup that found the tenant of a mapping created from another format
C11_Witness ==
    /\ LookedUp
    /\ last.restaurant_id = TenantT
    /\ last.phone = <<"1", "-", "2">>
    /\ \E m \in phone_map :
          m.restaurant_id = TenantT /\ m.raw = <<"(", "1", ")", " ", "2">>

-----------------------------------------------------------------------------
(* Properties of SpecEmpty *)

\* the sentence fixed for a category
CannedSentence(category) ==
    CASE category = <<"m", "e", "n", "u">> ->
            <<"I don't have information about that menu item.">>
      [] category = <<"m", "o", "d", "i", "f", "i", "e", "r", "s">> ->
            <<"I don't have information about those options.">>
      [] category = <<"h", "o", "u", "r", "s">> ->
            <<"I don't have operating hours information available right now.">>
      [] category = <<"z", "o", "n", "e", "s">> ->
            <<"I don't have delivery zone information available right now.">>
      [] OTHER -> <<"I don't have information about that.">>

\* the category of the tool a request names
CategoryOfTool(tool) ==
    CASE tool = <<"get_menu_info">> -> <<"m", "e", "n", "u">>
      [] tool = <<"get_modifiers_info">> -> <<"m", "o", "d", "i", "f", "i", "e", "r", "s">>
      [] tool = <<"get_hours_info">> -> <<"h", "o", "u", "r", "s">>
      [] tool = <<"get_zones_info">> -> <<"z", "o", "n", "e", "s">>
      [] OTHER -> None

\* the tool name of the requests of SpecShape, SpecEmpty
ToolOf(i) == i.body.toolCalls[1].name

\* a search that came back from the cache or from the store
Searched == last.ep = "kb" /\ last.status = 200 /\ ~last.timed_out

\* C12: a search with zero documents is answered with success status and one
\* result whose text is the canned sentence of the request's category; and
\* build_no_result answers with the custom message whenever one is supplied,
\* with the canned sentence of the category otherwise.
C12_EmptyResultText ==
    /\ (Searched /\ last.docs = <<>>) =>
          /\ Len(last.results) = 1
          /\ last.results[1].result = CannedSentence(CategoryOfTool(ToolOf(last.input)))
    /\ last.ep = "build_no_result" =>
          /\ Len(last.results) = 1
          /\ last.results[1].result =
                IF last.message \notin {None, Empty} THEN last.message
                ELSE CannedSentence(last.category)

\* an empty delivery-zones search, answered with the zones sentence
C12_Witness ==
    /\ Searched /\ last.docs = <<>> /\ last.store_calls = 1
    /\ ToolOf(last.input) = get_zones_info
    /\ last.results[1].result = ZonesMessage

-----------------------------------------------------------------------------
(* Properties of SpecEcho *)

\* the id of the first tool call that has one, of a body with two tool calls
\* at most
FirstToolCallId(b) ==
    IF b.toolCalls[1].id \notin {None, Empty} THEN b.toolCalls[1].id
    ELSE b.toolCalls[Len(b.toolCalls)].id

\* C13: every response of /knowledge-base with success status, be it of a
\* search with results, of one without, or of a timeout, has exactly one
\* result, and its toolCallId is the tool call id of the request.
C13_EchoesToolCallId ==
    (last.ep = "kb" /\ last.status = 200) =>
        /\ Len(last.results) = 1
        /\ last.results[1].toolCallId = FirstToolCallId(last.input.body)

\* a timeout answered with the id of the second tool call
C13_Witness ==
    /\ last.ep = "kb" /\ last.status = 200 /\ last.timed_out
    /\ last.input.body.toolCalls[1].id = None
    /\ last.results[1].toolCallId = ToolCallId2

-----------------------------------------------------------------------------
(* Properties of SpecShape *)

Min(a, b) == IF a < b THEN a ELSE b

BlankLine == <<"\n", "\n">>

\* C16: the text of a response with n > 0 results is the content of the first
\* min(n, 3) results in store order, joined by blank lines, and the response
\* has min(n, 3) items, item k built from result k.
C16_TopThree ==
    (Searched /\ last.docs # <<>>) =>
        LET n == Len(last.docs)
            d == last.docs
            items == last.results[1].metadata.items
        IN  /\ last.results[1].result =
                  IF n = 1 THEN d[1].content
                  ELSE IF n = 2 THEN d[1].content \o BlankLine \o d[2].content
                  ELSE d[1].content \o BlankLine \o d[2].content
                           \o BlankLine \o d[3].content
            /\ Len(items) = Min(n, 3)
            /\ \A k \in 1..Len(items) : items[k].score = d[k].score

\* a response made of the first three of five results
C16_Witness ==
    /\ Searched /\ Len(last.docs) = 5
    /\ Len(last.results[1].metadata.items) = 3
    /\ last.results[1].metadata.items[3].score = Catalogue[3].score

\* C17: the four known tool names select menu, modifiers, hours and zones;
\* every other tool name and no tool name select no category, and then the
\* store is asked without a category parameter and the results are cached
\* under the key of the "all" category.
C17_ToolToCategory ==
    (last.ep = "kb" /\ last.searched) =>
        LET expected == CategoryOfTool(ToolOf(last.input))
        IN  /\ last.category = expected
            /\ last.store_calls = 1 =>
                  /\ expected # None =>
                        /\ "query_category" \in DOMAIN last.rpc_params
                        /\ last.rpc_params.query_category = expected
                  /\ expected = None =>
                        /\ "query_category" \notin DOMAIN last.rpc_params
                        /\ \E e \in Entries(cache) :
                              /\ e.key = last.restaurant_id
                                            \o <<":", "a", "l", "l", ":">>
                                            \o last.query
                              /\ e.value = last.docs

\* a search under an unknown tool, answered from all categories
C17_Witness ==
    /\ Searched /\ last.store_calls = 1
    /\ ToolOf(last.input) = other_tool
    /\ last.category = None
    /\ \E k \in 1..Len(last.docs) : last.docs[k].category = modifiers

-----------------------------------------------------------------------------
(* Properties of SpecItems *)

\* a run of build_structured_items
Projected == last.ep = "build_structured_items"

ProjectedItems == last.items

\* the key set and the type tag of the items of a category
KeysOf(category) ==
    CASE category = menu -> {"type", "name", "price", "description", "score"}
      [] category = modifiers -> {"type", "name", "price_delta", "required", "score"}
      [] category = hours ->
            {"type", "day_of_week", "open_time", "close_time", "is_closed", "score"}
      [] category = zones -> {"type", "zone_name", "delivery_fee", "score"}
      [] OTHER -> {"type", "name", "score"}

TagOf(category, metadata) ==
    CASE category = menu -> <<"menu_item">>
      [] category = modifiers -> <<"modifier">>
      [] category = hours -> <<"hours">>
      [] category = zones -> <<"zone">>
      [] OTHER ->
            IF MetaTruthy(Get(metadata, "category")) THEN metadata["category"]
            ELSE IF MetaTruthy(Get(metadata, "type")) THEN metadata["type"]
            ELSE <<"unknown">>

\* C18 as stated: each item has the key set and the type tag of its
\* category, the score of its document, and under every other key the value
\* of the metadata field of that name.
C18_Projection ==
    Projected =>
        \A k \in 1..Len(ProjectedItems) :
            LET item == ProjectedItems[k]
                doc == last.docs[k]
            IN  /\ DOMAIN item = KeysOf(last.category)
                /\ item.type = TagOf(last.category, doc.metadata)
                /\ item.score = doc.score
                /\ \A f \in DOMAIN item \ {"type", "score"} :
                      item[f] = Get(doc.metadata, f)

\* where the value under a key of an item comes from: the metadata fields
\* tried in order, the first truthy one or else the last
FieldsOf(category, f) ==
    IF f = "name" THEN <<"name", "title">>
    ELSE IF category = modifiers /\ f = "price_delta" THEN <<"price", "price_delta">>
    ELSE IF category = zones /\ f = "zone_name" THEN <<"name", "zone_name">>
    ELSE IF category = zones /\ f = "delivery_fee" THEN <<"fee", "delivery_fee">>
    ELSE <<f, f>>

\* the text of a document before its first " - ", without surrounding blanks
NameInContent(doc) == Strip(BeforeSeparator(doc.content))

\* C18 as amended: each item has the key set and the type tag of its
\* category and the score of its document; price_delta is metadata.price or
\* else metadata.price_delta, zone_name is metadata.name or else
\* metadata.zone_name, delivery_fee is metadata.fee or else
\* metadata.delivery_fee, name is metadata.name or else metadata.title or
\* else the start of the content, and every other value is the metadata
\* field of the same name.
C18_ProjectionAmended ==
    Projected =>
        \A k \in 1..Len(ProjectedItems) :
            LET item == ProjectedItems[k]
                doc == last.docs[k]
            IN  /\ DOMAIN item = KeysOf(last.category)
                /\ item.type = TagOf(last.category, doc.metadata)
                /\ item.score = doc.score
                /\ \A f \in DOMAIN item \ {"type", "score"} :
                      LET from == FieldsOf(last.category, f)
                          first == Get(doc.metadata, from[1])
                          second == Get(doc.metadata, from[2])
                          value == IF MetaTruthy(first) THEN first ELSE second
                      IN  item[f] = IF f = "name" /\ ~MetaTruthy(value)
                                    THEN NameInContent(doc)
                                    ELSE value

\* a modifier whose price is 0 is given its price_delta
C18_Witness ==
    /\ Projected /\ last.category = modifiers
    /\ Len(ProjectedItems) = 2
    /\ Get(last.docs[2].metadata, "price") = Zero
    /\ ProjectedItems[2].price_delta = <<"2.0">>
    /\ ProjectedItems[1].price_delta = <<"1.0">>

-----------------------------------------------------------------------------
(* Properties of the cache over time and of the calls of one request *)

\* C14: a hit returns an entry written less than the TTL before the lookup
\* started, however often the entry was read; and an identical lookup after
\* the entry expired misses, calls the embedding provider and, unless that
\* fails or takes too long, the Knowledge Store.
C14_TtlFromInsertion ==
    /\ (last.ep = "kb" /\ last.hit) =>
          last.at < last.written + cache_ttl_seconds
    /\ (last.ep = "kb" /\ last.searched /\ last.stale) =>
          /\ ~last.hit
          /\ last.embedding_calls = 1
          /\ (last.status = 200 /\ ~last.timed_out) => last.store_calls = 1

\* the store is called again for a key whose entry expired
C14_Witness ==
    /\ last.ep = "kb" /\ last.stale /\ last.status = 200
    /\ ~last.hit /\ last.store_calls = 1
    /\ last.at >= cache_ttl_seconds

\* C15: a request calls the embedding provider at most once and the
\* Knowledge Store at most once, the store only after the embedding call
\* returned; a failure of either ends the request with status 500 and no
\* further call.  The calls counted are the handler's calls of
\* generate_embedding and of supabase.rpc(...).execute().
C15_NoRetries ==
    last.ep = "kb" =>
        /\ last.embedding_calls <= 1
        /\ last.store_calls <= 1
        /\ last.store_calls = 1 =>
              last.embedding_calls = 1 /\ last.error # EmbeddingErrorText
        /\ last.error = EmbeddingErrorText =>
              last.status = 500 /\ last.embedding_calls = 1 /\ last.store_calls = 0
        /\ last.error = StoreErrorText =>
              last.status = 500 /\ last.embedding_calls = 1 /\ last.store_calls = 1

\* a request ended by the failure of its one store call
C15_Witness ==
    /\ last.ep = "kb" /\ last.status = 500
    /\ last.error = StoreErrorText
    /\ last.embedding_calls = 1 /\ last.store_calls = 1

\* C20: the cache never holds more than its maximum of entries, and a write
\* of a new key into a full cache succeeds and leaves the cache full, an
\* earlier entry having made room.
C20_CapacityBound ==
    /\ [](Len(cache) <= MaxSize)
    /\ [][(\E e \in Entries(cache') : ~HasKey(cache, e.key)) =>
             /\ Len(cache') <= MaxSize
             /\ Len(cache) >= MaxSize =>
                   /\ Len(cache') = MaxSize
                   /\ \E old \in Entries(cache) : ~HasKey(cache', old.key)
                   /\ last'.status = 200]_vars

\* a search that wrote its results into a full cache
C20_Witness ==
    /\ last.ep = "kb" /\ last.evicted /\ last.status = 200
    /\ Len(cache) = MaxSize
    /\ HasKey(cache, get_cache_key(last.restaurant_id, last.query, last.category))

-----------------------------------------------------------------------------
(* Properties of requests in flight together *)

\* the lookups a finished store call for this key left in the cache
Settled(h, call) ==
    {y \in h : ~y.expired /\ SameKey(y, call.restaurant_id, call.category,
                                     call.query)}

\* C21: a request that missed the cache while an identical request was
\* suspended in the embedding call does not call the Knowledge Store once the
\* other's result is in the cache: the store is called once for the key.
C21_ConcurrentLookups ==
    [][\A r \in Slots :
          (/\ req[r].pc = "embedding"
           /\ req'[r].pc = "idle"
           /\ last'.store_calls = 1) => Settled(hist, req[r].call) = {}]_vars

\* the entries of d that c does not hold as they are: the writes of a step
Written(c, d) == {e \in Entries(d) : e \notin Entries(c)}

\* C22: every entry written into the cache is written by a request whose
\* Knowledge Store call returned, holds that call's result and lies under
\* that request's tenant, category and query; a request that ends with a 4xx
\* or a 500 leaves the cache as it was.
C22_WriteOnlyAfterStore ==
    [][/\ \A e \in Written(cache, cache') :
             \E r \in Slots :
                 /\ req[r].pc = "embedding" /\ req'[r].pc = "idle"
                 /\ last'.status = 200 /\ last'.store_calls = 1
                 /\ ~last'.timed_out
                 /\ e.key = get_cache_key(req[r].call.restaurant_id,
                                          req[r].call.query, req[r].call.category)
                 /\ e.restaurant_id = req[r].call.restaurant_id
                 /\ e.category = req[r].call.category
                 /\ e.query = req[r].call.query
                 /\ e.value = search_documents(
                                 store, rpc_params(req[r].call.restaurant_id,
                                                   req[r].call.category))
                 /\ e.value = last'.docs
       /\ (/\ last'.ep = "kb"
           /\ last'.status \in {401, 422, 500}
           /\ <<last, req>>' # <<last, req>>) => cache' = cache]_vars

\* a search has written the store's documents into the cache
C22_Witness ==
    /\ last.ep = "kb" /\ last.status = 200 /\ last.store_calls = 1
    /\ last.docs # <<>>
    /\ \E e \in Entries(cache) :
          /\ e.key = get_cache_key(last.restaurant_id, last.query, last.category)
          /\ e.value = last.docs
          /\ e.written = now

\* C23: a request whose search ran into the timeout does nothing but answer
\* with the degraded response: that step calls no Knowledge Store, writes no
\* cache entry, leaves the other requests alone and leaves no work of the
\* request behind, so nothing of it acts afterwards.
C23_AbandonedWorkInert ==
    /\ []((last.ep = "kb" /\ last.timed_out) =>
             last.store_calls = 0 /\ ~last.cache_changed)
    /\ [][\A r \in Slots :
             (/\ req[r].pc = "embedding"
              /\ now - req[r].call.at >= timeout
              /\ req'[r] # req[r]) =>
                 /\ last'.timed_out /\ last'.status = 200
                 /\ last'.store_calls = 0
                 /\ cache' = cache /\ store' = store
                 /\ req'[r] = Idle
                 /\ \A q \in Slots \ {r} : req'[q] = req[q]]_vars

\* the degraded response is out, the key of its search is not in the cache and
\* another request is in flight
C23_Witness ==
    /\ last.ep = "kb" /\ last.timed_out /\ last.status = 200
    /\ ~HasKey(cache, get_cache_key(last.restaurant_id, last.query, last.category))
    /\ \E r \in Slots : req[r].pc = "embedding"

-----------------------------------------------------------------------------
(* Properties of SpecQuery *)

\* the queries of tool calls whose arguments are an object or a JSON string
RECURSIVE ToolCallQueries(_)
ToolCallQueries(tcs) ==
    IF tcs = <<>> THEN <<>>
    ELSE (IF Head(tcs).arguments.t \in {"dict", "json"}
          THEN <<Head(tcs).arguments.query>> ELSE <<>>)
         \o ToolCallQueries(Tail(tcs))

\* what each shape of the body carries, in the order of priority
Shapes(b) ==
    <<b.query>>
    \o (IF b.message /\ b.functionCall.present /\ b.functionCall.parameters
        THEN <<b.functionCall.query>> ELSE <<>>)
    \o (IF b.message THEN ToolCallQueries(b.toolCalls) ELSE <<>>)
    \o <<LastContent(b.messages)>>

\* the first non-empty text of a sequence, None when there is none
RECURSIVE FirstNonEmpty(_)
FirstNonEmpty(s) ==
    IF s = <<>> THEN None
    ELSE IF Truthy(Head(s)) THEN Head(s)
    ELSE FirstNonEmpty(Tail(s))

\* C24: extract_query returns the non-empty query of the first shape that
\* carries one, in the order top-level query, function-call parameters,
\* tool-call arguments, last message with content, and None only when no
\* shape carries a query.
C24_QueryPriority ==
    last.ep = "extract_query" =>
        last.query = FirstNonEmpty(Shapes(last.input.body))

-----------------------------------------------------------------------------
(* Properties of SpecFallback *)

\* the phone number one field yields: a string itself, the number of an object
NumberOf(v) ==
    IF v.t = "str" THEN v.s
    ELSE IF v.t = "dict" THEN (IF Truthy(v.number) THEN v.number ELSE v.phoneNumber)
    ELSE None

\* the field of one level, under either of its two names
FieldOf(a, b) == IF a.t = "none" \/ (a.t = "str" /\ a.s = Empty) THEN b ELSE a

\* the caller's phone number: the message level, the call object when the
\* message level yields none
CallerPhone(b) ==
    LET top == NumberOf(FieldOf(b.phoneNumber, b.phone_number))
        nested == IF b.call
                  THEN NumberOf(FieldOf(b.call_phoneNumber, b.call_phone_number))
                  ELSE None
    IN  IF ~b.message THEN None
        ELSE IF Truthy(top) THEN top
        ELSE nested

\* C25: the phone number is the message-level field, a string or the number of
\* an object, and the call object's field, in the same two shapes, exactly when
\* the message level yields none; a valid request with no other identity
\* signal whose phone number has a mapping is searched for the mapped tenant.
C25_PhoneProbe ==
    (last.ep = "kb" /\ WellFormed(last.input)) =>
        LET phone == CallerPhone(last.input.body)
            rows == MappingRows(phone_map, NormalizePhone(phone))
        IN  /\ last.phone_lookup =
                  (IF Truthy(phone) THEN NormalizePhone(phone) ELSE None)
            /\ (Truthy(phone) /\ rows # {} /\ ~last.mapping_failed) =>
                  /\ last.searched
                  /\ last.restaurant_id \in {m.restaurant_id : m \in rows}

\* a search for the tenant of a phone number that the call object carries as an
\* object, the message level carrying an object without a number
C25_Witness ==
    /\ last.ep = "kb" /\ last.searched /\ last.status = 200
    /\ last.input.body.phoneNumber = DictPhone(None, None)
    /\ last.input.body.call_phone_number = DictPhone(PhoneFormatted, None)
    /\ last.restaurant_id = TenantW

\* the tenant /assistant-request names for a body, None when it answers {}
AssistantTenant(b, pm_ok) ==
    LET response == vapi_assistant_request(b, phone_map, pm_ok)
    IN  IF response = <<>> THEN None ELSE response[1].restaurant_id

C30_MappingFailureIsNoMapping ==
    /\ (last.ep = "get_restaurant_id_from_phone" /\ last.mapping_failed) =>
          last.restaurant_id = None
    /\ (last.ep = "kb" /\ WellFormed(last.input) /\ last.mapping_failed) =>
          /\ TenantRequired
          /\ NothingSearched
          /\ last.restaurant_id = None

\* a rejected request whose phone number has a mapping that the failing store
\* could not be asked for
C30_Witness ==
    /\ last.ep = "kb" /\ last.mapping_failed /\ TenantRequired
    /\ MappingRows(phone_map, last.phone_lookup) # {}

-----------------------------------------------------------------------------
(* Properties of SpecAssign and SpecProvision *)

\* assign_phone_to_restaurant has returned a phone number
Assigned(call) ==
    /\ call.ep = "assign_phone_to_restaurant" /\ call.status = 200
    /\ Truthy(call.phone)

\* C26: a phone number that assign_phone_to_restaurant(R) returns had no
\* mapping to another restaurant before the call, the call changes no mapping
\* of another restaurant, and afterwards the number maps to R.
C26_NoTakeover ==
    Assigned(last) =>
        LET p == NormalizePhone(last.phone)
        IN  /\ \A m \in MappingRows(last.pm_before, p) :
                  m.restaurant_id = last.restaurant_id
            /\ \A m \in last.pm_before :
                  m.restaurant_id # last.restaurant_id => m \in phone_map
            /\ \E m \in MappingRows(phone_map, p) :
                  m.restaurant_id = last.restaurant_id

\* C28: two calls for different restaurants that run together never both
\* return the same phone number, and once both have returned the Phone
\* Mapping records each returned number for the restaurant it was returned to.
C28_NoDoubleAssign ==
    \A r, q \in Slots :
        (/\ r # q
         /\ req[r].pc = "assigned" /\ req[q].pc = "assigned"
         /\ req[r].call.restaurant_id # req[q].call.restaurant_id
         /\ Assigned(req[r].call)) =>
            /\ Assigned(req[q].call) => req[r].call.phone # req[q].call.phone
            /\ \E m \in MappingRows(phone_map, NormalizePhone(req[r].call.phone)) :
                  m.restaurant_id = req[r].call.restaurant_id

-----------------------------------------------------------------------------
(* Properties of Spec: invalidation and requests in flight                 *)

\* what a search for the tenant's category returns from a store that holds
\* version v or a later one of the tenant's documents
ReadSince(restaurant_id, category, v) ==
    {search_documents([store EXCEPT ![restaurant_id] = w],
                      rpc_params(restaurant_id, category)) :
        w \in v..MaxVersion}

\* clear_cache(restaurant_id, None) has returned while the tenant's documents
\* were at version v
ClearedAt(restaurant_id, v) ==
    /\ Cleared
    /\ last.inv.restaurant_id = restaurant_id
    /\ last.inv.category = None
    /\ store[restaurant_id] = v

\* C27: once clear_cache(T, None) has returned, the cache holds for T, and a
\* request for T is served from the cache, only results read from the
\* Knowledge Store after the clear; a request that missed the cache before the
\* clear and was suspended in the embedding call during it writes what the
\* store holds when its embedding returns.
C27_InvalidationHolds ==
    \A v \in 0..MaxVersion :
        [](ClearedAt(TenantT, v) =>
              [](/\ \A e \in Entries(cache) :
                       e.restaurant_id = TenantT =>
                           e.value \in ReadSince(TenantT, e.category, v)
                 /\ (/\ last.ep = "kb" /\ last.status = 200
                     /\ last.restaurant_id = TenantT
                     /\ last.hit) =>
                        last.docs \in ReadSince(TenantT, last.category, v)))

\* the clear for tenant T has removed an entry while a request for T that had
\* missed the cache is suspended in the embedding call, and the tenant's
\* documents have changed since the start
C27_Witness ==
    /\ \E v \in 0..MaxVersion : ClearedAt(TenantT, v)
    /\ last.cache_changed
    /\ store[TenantT] # InitialStore[TenantT]
    /\ \E r \in Slots :
          /\ req[r].pc = "embedding"
          /\ req[r].call.restaurant_id = TenantT
          /\ ~req[r].call.hit

====
